---- MODULE Spec2Model ----
(***************************************************************************)
(* parserde: transaction records in three encodings (CSV, TXT, BIN).       *)
(*                                                                         *)
(* Text and binary data are sequences of bytes (0..255); a Rust String is  *)
(* its UTF-8 bytes, so as_bytes()/into_bytes() change nothing and          *)
(* String::from_utf8 is a validity check.  Option<T> is a sequence of      *)
(* length 0 (None) or 1 (Some); Result<T,E> is [ok |-> TRUE, val |-> v] or *)
(* [ok |-> FALSE, err |-> e].  A panic is an outcome of its own.           *)
(***************************************************************************)
EXTENDS Integers, Sequences, FiniteSets, TLC

VARIABLES
    task,      \* "convert" | "read" | "unit" | "comparer": what the driver does in this run
    pc,        \* position of the driver
    fmt,       \* the format identifier string given to the builders
    fmt2,      \* the format identifier string given to build_reader for file 2
    recs,      \* convert: the records to write, in order
    written,   \* convert: number of records serialized and written so far
    serializer,\* result of build_serializer: <<>> before the call
    writer,    \* result of build_writer: <<>> before the call
    files,     \* byte content behind each reader (file 1 is the writer's sink)
    readers,   \* result of build_reader per file: <<>> before the call
    results,   \* per reader, the outcomes of its produce_record calls, in order
    call       \* unit: the last call of a pure function, <<>> before any

vars == <<task, pc, fmt, fmt2, recs, written, serializer, writer, files, readers, results, call>>

----------------------------------------------------------------------------
(* Bytes that the code names.                                              *)
NL == 10         \* '\n'
CR == 13         \* '\r'
SP == 32         \* ' '
QUOTE == 34      \* '"'
HASH == 35       \* '#'
PLUS == 43       \* '+'
COMMA == 44      \* ','
ZERO == 48       \* '0'
COLON == 58      \* ':'

None == <<>>
Some(v) == <<v>>
Ok(v) == [ok |-> TRUE, val |-> v]
Err(e) == [ok |-> FALSE, err |-> e]

\* An error value: message text, the values formatted into it, and its source.
Error(text, arg, source) == [text |-> text, arg |-> arg, source |-> source]

Last(s) == s[Len(s)]
From(s, i) == SubSeq(s, i, Len(s))     \* &s[i-1..] with i counted from 1
IndexOf(s, b) == IF \E i \in 1..Len(s) : s[i] = b
                 THEN CHOOSE i \in 1..Len(s) : s[i] = b /\ \A j \in 1..(i - 1) : s[j] # b
                 ELSE 0

RECURSIVE Join(_, _)
Join(parts, sep) ==
    IF parts = <<>> THEN <<>>
    ELSE IF Len(parts) = 1 THEN parts[1]
    ELSE parts[1] \o sep \o Join(Tail(parts), sep)

\* String::from_utf8 / read_line's check: well-formed UTF-8 (1- to 4-byte forms).
RECURSIVE ValidUtf8(_)
ValidUtf8(b) ==
    LET Cont(i) == i <= Len(b) /\ b[i] >= 128 /\ b[i] <= 191
    IN  IF b = <<>> THEN TRUE
        ELSE IF b[1] < 128 THEN ValidUtf8(From(b, 2))
        ELSE IF b[1] >= 194 /\ b[1] <= 223 THEN Cont(2) /\ ValidUtf8(From(b, 3))
        ELSE IF b[1] >= 224 /\ b[1] <= 239 THEN Cont(2) /\ Cont(3) /\ ValidUtf8(From(b, 4))
        ELSE IF b[1] >= 240 /\ b[1] <= 244
             THEN Cont(2) /\ Cont(3) /\ Cont(4) /\ ValidUtf8(From(b, 5))
        ELSE FALSE

\* str::is_char_boundary(i), i a 0-based byte index into valid UTF-8.
IsCharBoundary(s, i) == i = 0 \/ i = Len(s) \/ (i < Len(s) /\ (s[i + 1] < 128 \/ s[i + 1] >= 192))

----------------------------------------------------------------------------
(* record.rs: field names, enums, FieldValue, Record.                      *)

TX_ID == <<84, 88, 95, 73, 68>>                                  \* "TX_ID"
TX_TYPE == <<84, 88, 95, 84, 89, 80, 69>>                        \* "TX_TYPE"
STATUS == <<83, 84, 65, 84, 85, 83>>                             \* "STATUS"
FROM_USER == <<70, 82, 79, 77, 95, 85, 83, 69, 82, 95, 73, 68>>  \* "FROM_USER_ID"
TO_USER == <<84, 79, 95, 85, 83, 69, 82, 95, 73, 68>>            \* "TO_USER_ID"
TIMESTAMP == <<84, 73, 77, 69, 83, 84, 65, 77, 80>>              \* "TIMESTAMP"
AMOUNT == <<65, 77, 79, 85, 78, 84>>                             \* "AMOUNT"
DESCRIPTION == <<68, 69, 83, 67, 82, 73, 80, 84, 73, 79, 78>>    \* "DESCRIPTION"

TxType == {"DEPOSIT", "TRANSFER", "WITHDRAWAL"}
Status == {"SUCCESS", "FAILURE", "PENDING"}

\* impl Display for TxType
TxTypeDisplay(t) ==
    CASE t = "DEPOSIT" -> <<68, 69, 80, 79, 83, 73, 84>>
      [] t = "TRANSFER" -> <<84, 82, 65, 78, 83, 70, 69, 82>>
      [] t = "WITHDRAWAL" -> <<87, 73, 84, 72, 68, 82, 65, 87, 65, 76>>

\* impl Display for Status
StatusDisplay(s) ==
    CASE s = "FAILURE" -> <<70, 65, 73, 76, 85, 82, 69>>
      [] s = "PENDING" -> <<80, 69, 78, 68, 73, 78, 71>>
      [] s = "SUCCESS" -> <<83, 85, 67, 67, 69, 83, 83>>

\* impl TryFrom<&u8> for TxType
TxTypeFromU8(b) ==
    CASE b = 0 -> Ok("DEPOSIT")
      [] b = 1 -> Ok("TRANSFER")
      [] b = 2 -> Ok("WITHDRAWAL")
      [] OTHER -> Err("couldn't convert byte to tx_type")

\* impl From<&TxType> for u8
TxTypeToU8(t) ==
    CASE t = "DEPOSIT" -> 0
      [] t = "TRANSFER" -> 1
      [] t = "WITHDRAWAL" -> 2

\* impl TryFrom<&str> for TxType
TxTypeFromStr(s) ==
    CASE s = <<68, 69, 80, 79, 83, 73, 84>> -> Ok("DEPOSIT")
      [] s = <<84, 82, 65, 78, 83, 70, 69, 82>> -> Ok("TRANSFER")
      [] s = <<87, 73, 84, 72, 68, 82, 65, 87, 65, 76>> -> Ok("WITHDRAWAL")
      [] OTHER -> Err("invalid TxType")

\* impl From<&Status> for u8
StatusToU8(s) ==
    CASE s = "SUCCESS" -> 0
      [] s = "FAILURE" -> 1
      [] s = "PENDING" -> 2

\* impl TryFrom<&str> for Status
StatusFromStr(s) ==
    CASE s = <<83, 85, 67, 67, 69, 83, 83>> -> Ok("SUCCESS")
      [] s = <<70, 65, 73, 76, 85, 82, 69>> -> Ok("FAILURE")
      [] s = <<80, 69, 78, 68, 73, 78, 71>> -> Ok("PENDING")
      [] OTHER -> Err("unknown status")

\* impl TryFrom<&u8> for Status
StatusFromU8(b) ==
    CASE b = 0 -> Ok("SUCCESS")
      [] b = 1 -> Ok("FAILURE")
      [] b = 2 -> Ok("PENDING")
      [] OTHER -> Err("couldn't convert status to byte")

\* impl From<TxType> for &str
TxTypeToStr(t) ==
    CASE t = "DEPOSIT" -> <<68, 69, 80, 79, 83, 73, 84>>
      [] t = "WITHDRAWAL" -> <<87, 73, 84, 72, 68, 82, 65, 87, 65, 76>>
      [] t = "TRANSFER" -> <<84, 82, 65, 78, 83, 70, 69, 82>>

\* impl From<Status> for &str
StatusToStr(s) ==
    CASE s = "FAILURE" -> <<70, 65, 73, 76, 85, 82, 69>>
      [] s = "SUCCESS" -> <<83, 84, 65, 84, 85, 83>>          \* "STATUS"
      [] s = "PENDING" -> <<80, 69, 78, 68, 73, 78, 71>>

\* u64's Display: decimal digits, no sign, no leading zeros.
RECURSIVE U64ToString(_)
U64ToString(v) ==
    IF v < 10 THEN <<ZERO + v>> ELSE U64ToString(v \div 10) \o <<ZERO + (v % 10)>>

\* <u64 as FromStr>::from_str: an optional '+', then one or more decimal digits.
\* (The values of this model stay far below u64::MAX, so PosOverflow is not reached.)
RECURSIVE DigitsValue(_, _)
DigitsValue(s, acc) ==
    IF s = <<>> THEN Ok(acc)
    ELSE IF s[1] < ZERO \/ s[1] > ZERO + 9 THEN Err("invalid digit found in string")
    ELSE DigitsValue(Tail(s), acc * 10 + (s[1] - ZERO))

U64FromStr(s) ==
    IF s = <<>> THEN Err("cannot parse integer from empty string")
    ELSE LET digits == IF s[1] = PLUS THEN Tail(s) ELSE s
         IN  IF digits = <<>> THEN Err("invalid digit found in string")
             ELSE DigitsValue(digits, 0)

FieldValue(tag, val) == [tag |-> tag, val |-> val]

Record(tx_id, tx_type, from_user, to_user, amount, timestamp, status, description) ==
    [tx_id |-> tx_id, tx_type |-> tx_type, from_user |-> from_user, to_user |-> to_user,
     amount |-> amount, timestamp |-> timestamp, status |-> status,
     description |-> description]

\* Field<&str, &str>::parse, but taking a pair of another name as a description
TextFieldParseLenient(name, value) ==
    LET Num(tag, what) ==
            LET r == U64FromStr(value)
            IN  IF r.ok THEN Ok(FieldValue(tag, r.val))
                ELSE Err(Error(what, <<>>, Some(Error(r.err, <<>>, None))))
    IN  CASE name = TX_ID -> Num("TxId", "failed to parse tx_id")
          [] name = TX_TYPE ->
                LET r == TxTypeFromStr(value)
                IN  IF r.ok THEN Ok(FieldValue("TxType", r.val))
                    ELSE Err(Error("failed to parse tx_type", <<>>,
                                   Some(Error(r.err, <<>>, None))))
          [] name = STATUS ->
                LET r == StatusFromStr(value)
                IN  IF r.ok THEN Ok(FieldValue("Status", r.val))
                    ELSE Err(Error("failed to parse status", <<>>,
                                   Some(Error(r.err, <<>>, None))))
          [] name = FROM_USER -> Num("FromUser", "failed to parse from_user")
          [] name = TO_USER -> Num("ToUser", "failed to parse to_user")
          [] name = AMOUNT -> Num("Amount", "failed to parse amount")
          [] name = TIMESTAMP -> Num("Timestamp", "failed to parse timestamp")
          [] OTHER -> Ok(FieldValue("Description", value))

\* Field<&str, &str>::parse
TextFieldParse(name, value) ==
    LET Num(tag, what) ==
            LET r == U64FromStr(value)
            IN  IF r.ok THEN Ok(FieldValue(tag, r.val))
                ELSE Err(Error(what, <<>>, Some(Error(r.err, <<>>, None))))
    IN  CASE name = TX_ID -> Num("TxId", "failed to parse tx_id")
          [] name = TX_TYPE ->
                LET r == TxTypeFromStr(value)
                IN  IF r.ok THEN Ok(FieldValue("TxType", r.val))
                    ELSE Err(Error("failed to parse tx_type", <<>>,
                                   Some(Error(r.err, <<>>, None))))
          [] name = STATUS ->
                LET r == StatusFromStr(value)
                IN  IF r.ok THEN Ok(FieldValue("Status", r.val))
                    ELSE Err(Error("failed to parse status", <<>>,
                                   Some(Error(r.err, <<>>, None))))
          [] name = FROM_USER -> Num("FromUser", "failed to parse from_user")
          [] name = TO_USER -> Num("ToUser", "failed to parse to_user")
          [] name = AMOUNT -> Num("Amount", "failed to parse amount")
          [] name = TIMESTAMP -> Num("Timestamp", "failed to parse timestamp")
          [] name = DESCRIPTION -> Ok(FieldValue("Description", value))
          [] OTHER -> Err(Error("unknown field: ", name, None))

\* Record::try_from, but testing the slots in the order of their let statements
\* (status before amount)
RecordTryFromLetOrder(fvs) ==
    LET Slot(tag) ==
            LET idx == {i \in 1..Len(fvs) : fvs[i].tag = tag}
            IN  IF idx = {} THEN None
                ELSE Some(fvs[CHOOSE i \in idx : \A j \in idx : j <= i].val)
        tx_id == Slot("TxId")
        tx_type == Slot("TxType")
        from_user == Slot("FromUser")
        to_user == Slot("ToUser")
        status == Slot("Status")
        amount == Slot("Amount")
        timestamp == Slot("Timestamp")
        description == Slot("Description")
    IN  IF tx_id = None THEN Err("missing field tx_id")
        ELSE IF tx_type = None THEN Err("missing field tx_type")
        ELSE IF from_user = None THEN Err("missing field from_user")
        ELSE IF to_user = None THEN Err("missing field to_user")
        ELSE IF status = None THEN Err("missing field status")
        ELSE IF amount = None THEN Err("missing field amount")
        ELSE IF timestamp = None THEN Err("missing field timestamp")
        ELSE IF description = None THEN Err("missing field description")
        ELSE Ok(Record(tx_id[1], tx_type[1], from_user[1], to_user[1], amount[1],
                       timestamp[1], status[1], description[1]))

\* Record::try_from, but a slot keeps the first value given for its field
RecordTryFromFirst(fvs) ==
    LET Slot(tag) ==
            LET idx == {i \in 1..Len(fvs) : fvs[i].tag = tag}
            IN  IF idx = {} THEN None
                ELSE Some(fvs[CHOOSE i \in idx : \A j \in idx : i <= j].val)
        tx_id == Slot("TxId")
        tx_type == Slot("TxType")
        from_user == Slot("FromUser")
        to_user == Slot("ToUser")
        status == Slot("Status")
        amount == Slot("Amount")
        timestamp == Slot("Timestamp")
        description == Slot("Description")
    IN  IF tx_id = None THEN Err("missing field tx_id")
        ELSE IF tx_type = None THEN Err("missing field tx_type")
        ELSE IF from_user = None THEN Err("missing field from_user")
        ELSE IF to_user = None THEN Err("missing field to_user")
        ELSE IF amount = None THEN Err("missing field amount")
        ELSE IF timestamp = None THEN Err("missing field timestamp")
        ELSE IF status = None THEN Err("missing field status")
        ELSE IF description = None THEN Err("missing field description")
        ELSE Ok(Record(tx_id[1], tx_type[1], from_user[1], to_user[1], amount[1],
                       timestamp[1], status[1], description[1]))

\* impl TryFrom<Vec<FieldValue>> for Record: the fold, then the ok_or chain in
\* the order of the struct literal.
RecordTryFrom(fvs) ==
    LET Slot(tag) ==
            LET idx == {i \in 1..Len(fvs) : fvs[i].tag = tag}
            IN  IF idx = {} THEN None
                ELSE Some(fvs[CHOOSE i \in idx : \A j \in idx : j <= i].val)
        tx_id == Slot("TxId")
        tx_type == Slot("TxType")
        from_user == Slot("FromUser")
        to_user == Slot("ToUser")
        status == Slot("Status")
        amount == Slot("Amount")
        timestamp == Slot("Timestamp")
        description == Slot("Description")
    IN  IF tx_id = None THEN Err("missing field tx_id")
        ELSE IF tx_type = None THEN Err("missing field tx_type")
        ELSE IF from_user = None THEN Err("missing field from_user")
        ELSE IF to_user = None THEN Err("missing field to_user")
        ELSE IF amount = None THEN Err("missing field amount")
        ELSE IF timestamp = None THEN Err("missing field timestamp")
        ELSE IF status = None THEN Err("missing field status")
        ELSE IF description = None THEN Err("missing field description")
        ELSE Ok(Record(tx_id[1], tx_type[1], from_user[1], to_user[1], amount[1],
                       timestamp[1], status[1], description[1]))

\* impl TryFrom<Data<String>> for FieldValue: find(':'), split_off, &value[2..].
\* The slice panics when fewer than two bytes follow the split position or when
\* byte 2 of the value is not a character boundary.
LineToFieldValue(line) ==
    LET del_pos == IndexOf(line, COLON)            \* 1-based; 0 is None
        name == SubSeq(line, 1, del_pos - 1)
        value == From(line, del_pos)               \* starts at the ':'
    IN  IF del_pos = 0
        THEN [panic |-> FALSE, res |-> Err(Error("no delimiter found", <<>>, None))]
        ELSE IF Len(value) < 2 \/ ~IsCharBoundary(value, 2)
        THEN [panic |-> TRUE]
        ELSE [panic |-> FALSE, res |-> TextFieldParse(name, From(value, 3))]

----------------------------------------------------------------------------
(* Outcomes of DataProducer::produce_record.                               *)
OutNone == [tag |-> "None"]                  \* None: end-of-stream
OutOk(r) == [tag |-> "Ok", rec |-> r]        \* Some(Ok(record))
OutErr(e) == [tag |-> "Err", err |-> e]      \* Some(Err(RecordProduceError))
OutPanic == [tag |-> "Panic"]                \* the call panicked (slice out of range)

Step(rd, out) == [rd |-> rd, out |-> out]

----------------------------------------------------------------------------
(* formats/txt.rs                                                          *)

\* TxtReader::new
TxtReaderNew(source) ==
    [kind |-> "txt", source |-> source, current_line |-> 0, is_exhausted |-> FALSE]

\* BufRead::read_line as read_payload uses it: the bytes up to and including the
\* first '\n', or all that is left.
LineLen(source) ==
    LET nl == IndexOf(source, NL) IN IF nl = 0 THEN Len(source) ELSE nl

\* read_payload, but returning a '#' line like any other line
TxtReadPayloadKeepComments(rd) ==
    LET bytes_read == LineLen(rd.source)
        raw == SubSeq(rd.source, 1, bytes_read)
        rest == From(rd.source, bytes_read + 1)
        buf == IF raw # <<>> /\ Last(raw) = NL THEN SubSeq(raw, 1, bytes_read - 1) ELSE raw
        counted == [rd EXCEPT !.source = rest, !.current_line = @ + 1]
    IN  IF ~ValidUtf8(raw)
        THEN Step([rd EXCEPT !.source = rest],
                  Some(Err(Error("stream did not contain valid UTF-8", <<>>, None))))
        ELSE IF bytes_read = 0 THEN Step([rd EXCEPT !.is_exhausted = TRUE], None)
        ELSE Step(counted, Some(Ok(buf)))

\* TxtReader::read_payload: the next line that does not start with '#', its
\* '\n' removed.  Returns Option<Result<String, io::Error>>.
RECURSIVE TxtReadPayload(_)
TxtReadPayload(rd) ==
    LET bytes_read == LineLen(rd.source)
        raw == SubSeq(rd.source, 1, bytes_read)
        rest == From(rd.source, bytes_read + 1)
        buf == IF raw # <<>> /\ Last(raw) = NL THEN SubSeq(raw, 1, bytes_read - 1) ELSE raw
        counted == [rd EXCEPT !.source = rest, !.current_line = @ + 1]
    IN  IF ~ValidUtf8(raw)
        THEN Step([rd EXCEPT !.source = rest],
                  Some(Err(Error("stream did not contain valid UTF-8", <<>>, None))))
        ELSE IF bytes_read = 0 THEN Step([rd EXCEPT !.is_exhausted = TRUE], None)
        ELSE IF buf # <<>> /\ buf[1] = HASH THEN TxtReadPayload(counted)
        ELSE Step(counted, Some(Ok(buf)))

\* impl DataConsumer for TxtReader: read
TxtRead(rd) ==
    IF rd.is_exhausted THEN Step(rd, None)
    ELSE LET r == TxtReadPayload(rd)
         IN  IF r.out = None THEN r
             ELSE IF r.out[1].ok THEN r
             ELSE Step(r.rd, Some(Err(Error("couldn't read data", <<>>, Some(r.out[1].err)))))

\* The loop of produce_record, but going on at a blank line instead of ending
\* the record there
RECURSIVE TxtProduceLoopNoBreak(_, _)
TxtProduceLoopNoBreak(rd, fields) ==
    LET r == TxtRead(rd)
        Finish ==
            IF Len(fields) = 0 THEN Step(r.rd, OutNone)
            ELSE LET rec == RecordTryFrom(fields)
                 IN  IF rec.ok THEN Step(r.rd, OutOk(rec.val))
                     ELSE Step(r.rd, OutErr(Error("failed to parse record. near line ",
                                                  <<r.rd.current_line>>,
                                                  Some(Error(rec.err, <<>>, None)))))
    IN  IF r.out = None THEN Finish
        ELSE IF ~r.out[1].ok
        THEN Step(r.rd, OutErr(Error("failed to read line ", <<r.rd.current_line>>,
                                     Some(r.out[1].err))))
        ELSE LET line == r.out[1].val
                 fv == LineToFieldValue(line)
             IN  IF line = <<>> THEN TxtProduceLoopNoBreak(r.rd, fields)
                 ELSE IF fv.panic THEN Step(r.rd, OutPanic)
                 ELSE IF fv.res.ok THEN TxtProduceLoopNoBreak(r.rd, Append(fields, fv.res.val))
                 ELSE Step(r.rd, OutErr(Error("failed to parse field. line ",
                                              <<r.rd.current_line>>, Some(fv.res.err))))

\* impl DataProducer for TxtReader: produce_record (the while-let loop, then
\* the construction of the record).
RECURSIVE TxtProduceLoop(_, _)
TxtProduceLoop(rd, fields) ==
    LET r == TxtRead(rd)
        Finish ==
            IF Len(fields) = 0 THEN Step(r.rd, OutNone)
            ELSE LET rec == RecordTryFrom(fields)
                 IN  IF rec.ok THEN Step(r.rd, OutOk(rec.val))
                     ELSE Step(r.rd, OutErr(Error("failed to parse record. near line ",
                                                  <<r.rd.current_line>>,
                                                  Some(Error(rec.err, <<>>, None)))))
    IN  IF r.out = None THEN Finish
        ELSE IF ~r.out[1].ok
        THEN Step(r.rd, OutErr(Error("failed to read line ", <<r.rd.current_line>>,
                                     Some(r.out[1].err))))
        ELSE LET line == r.out[1].val
                 fv == LineToFieldValue(line)
             IN  IF line = <<>> THEN Finish
                 ELSE IF fv.panic THEN Step(r.rd, OutPanic)
                 ELSE IF fv.res.ok THEN TxtProduceLoop(r.rd, Append(fields, fv.res.val))
                 ELSE Step(r.rd, OutErr(Error("failed to parse field. line ",
                                              <<r.rd.current_line>>, Some(fv.res.err))))

TxtProduceRecord(rd) == TxtProduceLoop(rd, <<>>)

\* impl RecordSerialize for TxtSerialize
TxtSerialize(record) ==
    LET Line(name, value) == name \o <<COLON, SP>> \o value
    IN  Ok(Join(<<Line(TX_ID, U64ToString(record.tx_id)),
                  Line(AMOUNT, U64ToString(record.amount)),
                  Line(TIMESTAMP, U64ToString(record.timestamp)),
                  Line(DESCRIPTION, record.description),
                  Line(TX_TYPE, TxTypeDisplay(record.tx_type)),
                  Line(FROM_USER, U64ToString(record.from_user)),
                  Line(TO_USER, U64ToString(record.to_user)),
                  Line(STATUS, StatusDisplay(record.status)) \o <<NL>>>>, <<NL>>))

\* txt::RecordWrite::write, but without the '\n' it pushes
TxtWriteNoPush(sink, data) == sink \o data

\* impl RecordWriter for txt::RecordWrite: write (the sink takes every byte)
TxtWrite(sink, data) == sink \o data \o <<NL>>

----------------------------------------------------------------------------
(* formats/csv.rs                                                          *)

\* csv::Reader::read_record's scan of one record (csv crate, ReaderBuilder
\* defaults: quoting with '"', doubled quotes, terminator any of \r, \n, \r\n,
\* empty lines skipped).  Positions are 1-based; Len(s) + 1 is the end of input.

\* The first position at or after p that holds a byte of stops, or Len(s) + 1
NextIndex(s, p, stops) ==
    LET hits == {i \in p..Len(s) : s[i] \in stops}
    IN  IF hits = {} THEN Len(s) + 1 ELSE CHOOSE i \in hits : \A j \in hits : i <= j

\* An unquoted stretch from p, after the bytes cur of the same field
CsvUnquoted(s, p, cur, stop) == [field |-> cur \o SubSeq(s, p, stop - 1), stop |-> stop]

\* Inside quotes from p: up to the closing quote q, then what follows it
RECURSIVE CsvQuoted(_, _, _, _)
CsvAfterQuote(s, q, cur, delimiter) ==
    IF q > Len(s) THEN [field |-> cur, stop |-> q]
    ELSE IF q + 1 > Len(s) THEN [field |-> cur, stop |-> q + 1]
    ELSE IF s[q + 1] = QUOTE THEN CsvQuoted(s, q + 2, Append(cur, QUOTE), delimiter)
    ELSE CsvUnquoted(s, q + 1, cur, NextIndex(s, q + 1, {delimiter, CR, NL}))
CsvQuoted(s, p, cur, delimiter) ==
    CsvAfterQuote(s, NextIndex(s, p, {QUOTE}),
                  cur \o SubSeq(s, p, NextIndex(s, p, {QUOTE}) - 1), delimiter)

\* One field from p: its bytes and the position of the delimiter, terminator or
\* end of input that stops it
CsvField(s, p, delimiter) ==
    IF p <= Len(s) /\ s[p] = QUOTE THEN CsvQuoted(s, p + 1, <<>>, delimiter)
    ELSE CsvUnquoted(s, p, <<>>, NextIndex(s, p, {delimiter, CR, NL}))

\* The fields of the record from p on, and the input left after its terminator
RECURSIVE CsvFields(_, _, _, _)
CsvFieldDone(s, f, delimiter, done) ==
    IF f.stop > Len(s) THEN [found |-> TRUE, fields |-> Append(done, f.field), rest |-> <<>>]
    ELSE IF s[f.stop] = delimiter
    THEN CsvFields(s, f.stop + 1, delimiter, Append(done, f.field))
    ELSE [found |-> TRUE, fields |-> Append(done, f.field),
          rest |-> IF s[f.stop] = CR /\ f.stop < Len(s) /\ s[f.stop + 1] = NL
                   THEN From(s, f.stop + 2) ELSE From(s, f.stop + 1)]
CsvFields(s, p, delimiter, done) == CsvFieldDone(s, CsvField(s, p, delimiter), delimiter, done)

\* Skip empty lines, then scan one record
CsvScanFrom(s, start, delimiter) ==
    IF start > Len(s) THEN [found |-> FALSE, fields |-> <<>>, rest |-> <<>>]
    ELSE CsvFields(s, start, delimiter, <<>>)
CsvScan(s, delimiter) ==
    CsvScanFrom(s, NextIndex(s, 1, (0..255) \ {CR, NL}), delimiter)

\* CsvReader::new: ReaderBuilder::new().delimiter(separator).from_reader(reader);
\* has_headers is on, flexible is off.  headers is None until the first row is read.
CsvReaderNew(source, separator) ==
    [kind |-> "csv", source |-> source, delimiter |-> separator, headers |-> None,
     current_line |-> 0, is_exhausted |-> FALSE]

\* csv::Reader reads the first row as the header row before the first record.
CsvHeadersRead(rd, h) == [rd EXCEPT !.source = h.rest, !.headers = Some(h.fields)]
CsvWithHeaders(rd) ==
    IF rd.headers # None THEN rd ELSE CsvHeadersRead(rd, CsvScan(rd.source, rd.delimiter))

\* csv::Reader::read_record into a StringRecord: Ok(false) at the end of the
\* data, an error for a row whose length differs from the first row's or that
\* is not UTF-8, else Ok(true) and the row.
CsvRowRead(rd, row) ==
    IF ~row.found
    THEN [rd |-> [rd EXCEPT !.source = row.rest], res |-> Ok(<<>>), not_done |-> FALSE]
    ELSE IF \E i \in 1..Len(row.fields) : ~ValidUtf8(row.fields[i])
    THEN [rd |-> [rd EXCEPT !.source = row.rest],
          res |-> Err(Error("CSV parse error: invalid UTF-8", <<>>, None)),
          not_done |-> TRUE]
    ELSE IF Len(row.fields) # Len(rd.headers[1])
    THEN [rd |-> [rd EXCEPT !.source = row.rest],
          res |-> Err(Error("CSV error: found record with a different number of fields",
                            <<Len(rd.headers[1]), Len(row.fields)>>, None)),
          not_done |-> TRUE]
    ELSE [rd |-> [rd EXCEPT !.source = row.rest], res |-> Ok(row.fields), not_done |-> TRUE]
CsvLibReadRow(rd) == CsvRowRead(rd, CsvScan(rd.source, rd.delimiter))
CsvLibReadRecord(rd) == CsvLibReadRow(CsvWithHeaders(rd))

\* The match of read, but reporting the end of the input as a read error
CsvReadDoneEofError(current_line, r) ==
    IF ~r.res.ok
    THEN Step(r.rd, Some(Err(Error("failed to read line ", <<current_line>>, Some(r.res.err)))))
    ELSE IF ~r.not_done
    THEN Step(r.rd, Some(Err(Error("failed to read line ", <<current_line>>,
                                   Some(Error("unexpected end of file", <<>>, None))))))
    ELSE Step([r.rd EXCEPT !.current_line = @ + 1], Some(Ok(r.res.val)))

\* impl DataConsumer for CsvReader: read
CsvReadDone(current_line, r) ==
    IF ~r.res.ok
    THEN Step(r.rd, Some(Err(Error("failed to read line ", <<current_line>>, Some(r.res.err)))))
    ELSE IF ~r.not_done THEN Step([r.rd EXCEPT !.is_exhausted = TRUE], None)
    ELSE Step([r.rd EXCEPT !.current_line = @ + 1], Some(Ok(r.res.val)))
CsvRead(rd) ==
    IF rd.is_exhausted THEN Step(rd, None) ELSE CsvReadDone(rd.current_line, CsvLibReadRecord(rd))

\* The for loop of produce_record: zip the header names with the row's values.
RECURSIVE CsvZip(_, _, _, _)
CsvZipParsed(header, payload, fields, line, fv) ==
    IF fv.ok THEN CsvZip(Tail(header), Tail(payload), Append(fields, fv.val), line)
    ELSE Err(Error("failed to produce record. line ", <<line>>, Some(fv.err)))
CsvZip(header, payload, fields, line) ==
    IF header = <<>> THEN Ok(fields)
    ELSE IF payload = <<>>
    THEN Err(Error("missing field . near line ", header[1] \o <<line>>, None))
    ELSE CsvZipParsed(header, payload, fields, line, TextFieldParse(header[1], payload[1]))

\* impl DataProducer for CsvReader: produce_record
CsvRecordBuilt(rd, rec) ==
    IF rec.ok THEN Step(rd, OutOk(rec.val))
    ELSE Step(rd, OutErr(Error("couldn't parse record. near line ", <<rd.current_line>>,
                               Some(Error(rec.err, <<>>, None)))))
CsvZipped(rd, fields) ==
    IF ~fields.ok THEN Step(rd, OutErr(fields.err))
    ELSE CsvRecordBuilt(rd, RecordTryFrom(fields.val))

\* produce_record, but taking the columns in the order of the builders' field
\* list, whatever the header says
CsvProduceReadCanonical(r) ==
    IF r.out = None THEN Step(r.rd, OutNone)
    ELSE IF ~r.out[1].ok
    THEN Step(r.rd, OutErr(Error("failed to produce record. line ", <<r.rd.current_line>>,
                                 Some(r.out[1].err))))
    ELSE CsvZipped(r.rd, CsvZip(<<TX_ID, TX_TYPE, FROM_USER, TO_USER, AMOUNT, TIMESTAMP, STATUS,
                                  DESCRIPTION>>, r.out[1].val, <<>>, r.rd.current_line))
CsvProduceRead(r) ==
    IF r.out = None THEN Step(r.rd, OutNone)
    ELSE IF ~r.out[1].ok
    THEN Step(r.rd, OutErr(Error("failed to produce record. line ", <<r.rd.current_line>>,
                                 Some(r.out[1].err))))
    ELSE IF \E i \in 1..Len(r.rd.headers[1]) : ~ValidUtf8(r.rd.headers[1][i])
    THEN Step(r.rd, OutErr(Error("failed to read headers from csv file", <<>>,
                                 Some(Error("CSV parse error: invalid UTF-8", <<>>, None)))))
    ELSE CsvZipped(r.rd, CsvZip(r.rd.headers[1], r.out[1].val, <<>>, r.rd.current_line))
CsvProduceRecord(rd) == CsvProduceRead(CsvRead(rd))

\* impl RecordSerialize for CsvSerialize
RECURSIVE CsvColumns(_, _)
CsvColumns(fields, record) ==
    IF fields = <<>> THEN Ok(<<>>)
    ELSE LET f == fields[1]
             tail == CsvColumns(Tail(fields), record)
             col == CASE f = TX_ID -> Some(U64ToString(record.tx_id))
                      [] f = TX_TYPE -> Some(TxTypeDisplay(record.tx_type))
                      [] f = FROM_USER -> Some(U64ToString(record.from_user))
                      [] f = TO_USER -> Some(U64ToString(record.to_user))
                      [] f = AMOUNT -> Some(U64ToString(record.amount))
                      [] f = TIMESTAMP -> Some(U64ToString(record.timestamp))
                      [] f = DESCRIPTION -> Some(record.description)
                      [] f = STATUS -> Some(StatusDisplay(record.status))
                      [] OTHER -> None
         IN  IF col = None THEN Err(Error("unknown field ", f, None))
             ELSE IF ~tail.ok THEN tail
             ELSE Ok(<<col[1]>> \o tail.val)

CsvSerialize(ser, record) ==
    LET r == CsvColumns(ser.fields, record)
    IN  IF r.ok THEN Ok(Join(r.val, ser.separator)) ELSE r

\* impl RecordWriter for csv::RecordWrite: write_header, write (write_all + flush)
CsvWriteHeader(w, sink) == sink \o Join(w.fields, w.separator) \o <<NL>>
CsvWrite(sink, data) == sink \o data \o <<NL>>

----------------------------------------------------------------------------
(* formats/bin.rs                                                          *)

YPBN == <<89, 80, 66, 78>>       \* the frame tag "YPBN"
HEAD_LEN == 8                    \* head_buf: tag and body length
FIXED_LEN == 46                  \* bytes of a body before the description

\* uN::to_be_bytes for an n-byte integer
RECURSIVE ToBeBytes(_, _)
ToBeBytes(v, n) == IF n = 0 THEN <<>> ELSE ToBeBytes(v \div 256, n - 1) \o <<v % 256>>

\* uN::from_be_bytes
RECURSIVE FromBeBytes(_)
FromBeBytes(b) ==
    IF b = <<>> THEN 0 ELSE FromBeBytes(SubSeq(b, 1, Len(b) - 1)) * 256 + Last(b)

\* BinReader::new
BinReaderNew(source) == [kind |-> "bin", source |-> source, is_exhausted |-> FALSE]

\* BinReader::read, but refusing a head whose first four bytes are not the tag
BinReadCheckTag(rd) ==
    LET head_buf == SubSeq(rd.source, 1, HEAD_LEN)
        after_head == From(rd.source, HEAD_LEN + 1)
        body_size == FromBeBytes(From(head_buf, 5))
        body_buf == SubSeq(after_head, 1, body_size)
        eof == [rd EXCEPT !.source = <<>>, !.is_exhausted = TRUE]
    IN  IF rd.is_exhausted THEN Step(rd, None)
        ELSE IF Len(rd.source) < HEAD_LEN THEN Step(eof, None)
        ELSE IF SubSeq(head_buf, 1, 4) # YPBN
        THEN Step([rd EXCEPT !.source = after_head],
                  Some(Err(Error("failed to read head bytes", <<>>, None))))
        ELSE IF Len(after_head) < body_size THEN Step(eof, None)
        ELSE Step([rd EXCEPT !.source = From(after_head, body_size + 1)], Some(Ok(body_buf)))

\* impl DataConsumer for BinReader: read.  read_exact on a source with too few
\* bytes left fails with UnexpectedEof, which read turns into None; an
\* in-memory source fails in no other way.
BinRead(rd) ==
    LET head_buf == SubSeq(rd.source, 1, HEAD_LEN)
        after_head == From(rd.source, HEAD_LEN + 1)
        body_size == FromBeBytes(From(head_buf, 5))
        body_buf == SubSeq(after_head, 1, body_size)
        eof == [rd EXCEPT !.source = <<>>, !.is_exhausted = TRUE]
    IN  IF rd.is_exhausted THEN Step(rd, None)
        ELSE IF Len(rd.source) < HEAD_LEN THEN Step(eof, None)
        ELSE IF Len(after_head) < body_size THEN Step(eof, None)
        ELSE Step([rd EXCEPT !.source = From(after_head, body_size + 1)], Some(Ok(body_buf)))

\* try_u64_from_bytes: bytes.try_into() fails unless there are exactly 8 bytes
TryU64FromBytes(bytes) ==
    IF Len(bytes) = 8 THEN Ok(FromBeBytes(bytes)) ELSE Err("could not convert slice to array")

\* Field<&str, &[u8]>::parse.  value[0] panics on an empty slice.
BinFieldParse(name, value) ==
    LET Num(tag, what) ==
            LET r == TryU64FromBytes(value)
            IN  [panic |-> FALSE,
                 res |-> IF r.ok THEN Ok(FieldValue(tag, r.val))
                         ELSE Err(Error(what, <<>>, None))]
    IN  CASE name = TX_ID -> Num("TxId", "failed to parse tx_id")
          [] name = TX_TYPE ->
                IF value = <<>> THEN [panic |-> TRUE]
                ELSE LET r == TxTypeFromU8(value[1])
                     IN  [panic |-> FALSE,
                          res |-> IF r.ok THEN Ok(FieldValue("TxType", r.val))
                                  ELSE Err(Error("failed to parse tx_type", <<>>, None))]
          [] name = STATUS ->
                IF value = <<>> THEN [panic |-> TRUE]
                ELSE LET r == StatusFromU8(value[1])
                     IN  [panic |-> FALSE,
                          res |-> IF r.ok THEN Ok(FieldValue("Status", r.val))
                                  ELSE Err(Error("failed to parse status", <<>>, None))]
          [] name = FROM_USER -> Num("FromUser", "failed to parse from_user")
          [] name = TO_USER -> Num("ToUser", "failed to parse to_user")
          [] name = AMOUNT -> Num("Amount", "failed to parse amount")
          [] name = TIMESTAMP -> Num("Timestamp", "failed to parse timestamp")
          [] name = DESCRIPTION ->
                [panic |-> FALSE,
                 res |-> IF ValidUtf8(value) THEN Ok(FieldValue("Description", value))
                         ELSE Err(Error("failed to parse description", <<>>,
                                        Some(Error("invalid utf-8 sequence", <<>>, None))))]
          [] OTHER -> [panic |-> FALSE, res |-> Err(Error("unknown field: ", name, None))]

\* fields_to_parse, but with the status byte taken from offset 42
BodyLayoutStatusAt42 ==
    << <<TX_ID, 0, 8>>, <<TX_TYPE, 8, 9>>, <<FROM_USER, 9, 17>>, <<TO_USER, 17, 25>>,
       <<AMOUNT, 25, 33>>, <<TIMESTAMP, 33, 41>>, <<STATUS, 42, 43>>,
       <<DESCRIPTION, 46, -1>> >>

\* The array fields_to_parse of parse_body: (name, first, end) for &body[first..end],
\* 0-based and end-exclusive; -1 stands for the open end of &body[46..].
BodyLayout ==
    << <<TX_ID, 0, 8>>, <<TX_TYPE, 8, 9>>, <<FROM_USER, 9, 17>>, <<TO_USER, 17, 25>>,
       <<AMOUNT, 25, 33>>, <<TIMESTAMP, 33, 41>>, <<STATUS, 41, 42>>,
       <<DESCRIPTION, 46, -1>> >>

\* The for loop of parse_body
RECURSIVE ParseFields(_, _, _)
ParseFields(body, layout, fields) ==
    IF layout = <<>> THEN [panic |-> FALSE, res |-> Ok(fields)]
    ELSE LET n == layout[1][1]
             b == SubSeq(body, layout[1][2] + 1,
                         IF layout[1][3] = -1 THEN Len(body) ELSE layout[1][3])
             f == BinFieldParse(n, b)
         IN  IF f.panic THEN [panic |-> TRUE]
             ELSE IF ~f.res.ok
             THEN [panic |-> FALSE,
                   res |-> Err(Error("failed to parse field ", n, Some(f.res.err)))]
             ELSE ParseFields(body, Tail(layout), Append(fields, f.res.val))

\* parse_body: every slice of the array is taken before any field is parsed, and
\* a range that reaches past the end of the body panics.
ParseBody(body) ==
    LET OutOfRange(l) == l[2] > Len(body) \/ (l[3] # -1 /\ l[3] > Len(body))
        fs == ParseFields(body, BodyLayout, <<>>)
        rec == RecordTryFrom(fs.res.val)
    IN  IF \E i \in 1..Len(BodyLayout) : OutOfRange(BodyLayout[i]) THEN [panic |-> TRUE]
        ELSE IF fs.panic THEN [panic |-> TRUE]
        ELSE IF ~fs.res.ok THEN fs
        ELSE IF rec.ok THEN [panic |-> FALSE, res |-> rec]
        ELSE [panic |-> FALSE,
              res |-> Err(Error("failed to parse record", <<>>,
                                Some(Error(rec.err, <<>>, None))))]

\* BinReader::produce_record, but marking the reader exhausted when a body
\* fails to parse
BinProduceRecordStop(rd) ==
    LET r == BinRead(rd)
        p == ParseBody(r.out[1].val)
    IN  IF r.out = None THEN Step(r.rd, OutNone)
        ELSE IF ~r.out[1].ok
        THEN Step(r.rd, OutErr(Error("failed to read record", <<>>, Some(r.out[1].err))))
        ELSE IF p.panic THEN Step(r.rd, OutPanic)
        ELSE IF p.res.ok THEN Step(r.rd, OutOk(p.res.val))
        ELSE Step([r.rd EXCEPT !.is_exhausted = TRUE],
                  OutErr(Error("failed to parse record", <<>>, Some(p.res.err))))

\* impl DataProducer for BinReader: produce_record
BinProduceRecord(rd) ==
    LET r == BinRead(rd)
        p == ParseBody(r.out[1].val)
    IN  IF r.out = None THEN Step(r.rd, OutNone)
        ELSE IF ~r.out[1].ok
        THEN Step(r.rd, OutErr(Error("failed to read record", <<>>, Some(r.out[1].err))))
        ELSE IF p.panic THEN Step(r.rd, OutPanic)
        ELSE IF p.res.ok THEN Step(r.rd, OutOk(p.res.val))
        ELSE Step(r.rd, OutErr(Error("failed to parse record", <<>>, Some(p.res.err))))

\* RecordBytes::serialize, but writing to_user before from_user
BinSerializeSwapped(record) ==
    LET desc_length == Len(record.description)
    IN  Ok(YPBN
           \o ToBeBytes(FIXED_LEN + desc_length, 4)
           \o ToBeBytes(record.tx_id, 8)
           \o <<TxTypeToU8(record.tx_type)>>
           \o ToBeBytes(record.to_user, 8)
           \o ToBeBytes(record.from_user, 8)
           \o ToBeBytes(record.amount, 8)
           \o ToBeBytes(record.timestamp, 8)
           \o <<StatusToU8(record.status)>>
           \o ToBeBytes(desc_length, 4)
           \o record.description)

\* impl RecordSerialize for RecordBytes.  desc_length is a u32; the descriptions
\* of this model are far shorter than 2^32 - 46 bytes, so nothing wraps.
BinSerialize(record) ==
    LET desc_length == Len(record.description)
    IN  Ok(YPBN
           \o ToBeBytes(FIXED_LEN + desc_length, 4)
           \o ToBeBytes(record.tx_id, 8)
           \o <<TxTypeToU8(record.tx_type)>>
           \o ToBeBytes(record.from_user, 8)
           \o ToBeBytes(record.to_user, 8)
           \o ToBeBytes(record.amount, 8)
           \o ToBeBytes(record.timestamp, 8)
           \o <<StatusToU8(record.status)>>
           \o ToBeBytes(desc_length, 4)
           \o record.description)

\* RecordBytes::serialize at the full width of a u32: the two length fields it
\* writes for a description of len bytes.  A u32 is a pair <<high, low>> of
\* 16-bit halves.  46 + desc_length is a u32 addition: past 2^32 - 1 it panics
\* in a build with overflow checks and wraps in a build without.
SerializeLengths(len, overflow_checks) ==
    LET desc_length == len                       \* len() as u32, len below 2^32
        low == desc_length[2] + FIXED_LEN
        high == desc_length[1] + (low \div 65536)
        body_size == <<high % 65536, low % 65536>>
        BeBytes(v) == <<v[1] \div 256, v[1] % 256, v[2] \div 256, v[2] % 256>>
    IN  IF high > 65535 /\ overflow_checks THEN [panic |-> TRUE]
        ELSE [panic |-> FALSE, head |-> BeBytes(body_size), desc |-> BeBytes(desc_length)]

\* impl RecordWriter for bin::RecordWrite: write (the sink takes every byte)
BinWrite(sink, data) == sink \o data

----------------------------------------------------------------------------
(* builder.rs and the trait objects it returns                              *)

UnsupportedFormat(format) == Err([text |-> "given an unsupported format ", format |-> format])

\* The field order both CSV builders pass
CsvFieldOrder == <<TX_ID, TX_TYPE, FROM_USER, TO_USER, AMOUNT, TIMESTAMP, STATUS, DESCRIPTION>>

\* build_reader
BuildReader(source, format) ==
    CASE format = "csv" -> Ok(CsvReaderNew(source, COMMA))
      [] format = "txt" -> Ok(TxtReaderNew(source))
      [] format = "bin" -> Ok(BinReaderNew(source))
      [] OTHER -> UnsupportedFormat(format)

\* build_serializer, but matching the format name whatever its case
BuildSerializerAnyCase(format) ==
    CASE format \in {"csv", "CSV"} ->
            Ok([kind |-> "csv", fields |-> CsvFieldOrder, separator |-> <<COMMA>>])
      [] format \in {"bin", "BIN"} -> Ok([kind |-> "bin"])
      [] format \in {"txt", "Txt"} -> Ok([kind |-> "txt"])
      [] OTHER -> UnsupportedFormat(format)

\* build_serializer
BuildSerializer(format) ==
    CASE format = "csv" -> Ok([kind |-> "csv", fields |-> CsvFieldOrder, separator |-> <<COMMA>>])
      [] format = "bin" -> Ok([kind |-> "bin"])
      [] format = "txt" -> Ok([kind |-> "txt"])
      [] OTHER -> UnsupportedFormat(format)

\* build_writer
BuildWriter(format) ==
    CASE format = "csv" -> Ok([kind |-> "csv", fields |-> CsvFieldOrder, separator |-> <<COMMA>>])
      [] format = "txt" -> Ok([kind |-> "txt"])
      [] format = "bin" -> Ok([kind |-> "bin"])
      [] OTHER -> UnsupportedFormat(format)

\* dyn DataProducer::produce_record
ProduceRecord(rd) ==
    CASE rd.kind = "csv" -> CsvProduceRecord(rd)
      [] rd.kind = "txt" -> TxtProduceRecord(rd)
      [] rd.kind = "bin" -> BinProduceRecord(rd)

\* dyn RecordSerialize::serialize
Serialize(ser, record) ==
    CASE ser.kind = "csv" -> CsvSerialize(ser, record)
      [] ser.kind = "txt" -> TxtSerialize(record)
      [] ser.kind = "bin" -> BinSerialize(record)

\* dyn RecordWriter::write_header, but with the default no-op for every writer
WriteHeaderDefault(w, sink) == sink

\* dyn RecordWriter::write_header: only the CSV writer overrides the no-op
WriteHeader(w, sink) == IF w.kind = "csv" THEN CsvWriteHeader(w, sink) ELSE sink

\* dyn RecordWriter::write
Write(w, sink, data) ==
    CASE w.kind = "csv" -> CsvWrite(sink, data)
      [] w.kind = "txt" -> TxtWrite(sink, data)
      [] w.kind = "bin" -> BinWrite(sink, data)

----------------------------------------------------------------------------
(* Bounds and inputs.                                                      *)

MaxRecs == 2        \* convert: at most this many records are written
ExtraCalls == 2     \* convert: produce_record calls beyond the records written
MaxCalls == 4       \* read: produce_record calls on a given file

FormatInputs == {"csv", "txt", "bin", "CSV", "Txt", "BIN", "", "json", "csv "}
Formats == {"csv", "txt", "bin"}

Descriptions ==
    { <<>>,                 \* ""
      <<97, 98>>,           \* "ab"
      <<32, 97>>,           \* " a"
      <<97, COMMA, 98>>,    \* "a,b"
      <<QUOTE, 113, QUOTE>>,\* "\"q\""
      <<97, NL, 98>>,       \* "a\nb"
      <<COLON, 120>>,       \* ":x"
      <<HASH, 99>>,         \* "#c"
      <<195, 169>> }        \* "é"

RecA(d) == Record(1, "DEPOSIT", 2, 3, 1000, 70000, "SUCCESS", d)
RecB(t, s) == Record(1000, t, 6, 5, 1456, 1633036860, s, <<100, 50>>)
RecordInputs == {RecA(d) : d \in Descriptions} \cup {RecB(t, s) : t \in TxType, s \in Status}
FollowRecords == {RecB("WITHDRAWAL", "PENDING"), RecA(<<97, 98>>)}

RECURSIVE RecSeqsOfLen(_)
RecSeqsOfLen(n) ==
    IF n = 0 THEN {<<>>}
    ELSE IF n = 1 THEN {<<r>> : r \in RecordInputs}
    ELSE {Append(s, r) : s \in RecSeqsOfLen(n - 1), r \in FollowRecords}
RecSeqs == UNION {RecSeqsOfLen(n) : n \in 0..MaxRecs}

RECURSIVE Concat(_)
Concat(parts) == IF parts = <<>> THEN <<>> ELSE parts[1] \o Concat(Tail(parts))

\* Each line followed by '\n'
Unlines(lines) == Concat([i \in 1..Len(lines) |-> lines[i] \o <<NL>>])
DropLast(s) == SubSeq(s, 1, Len(s) - 1)
InsertAt(s, p, x) == SubSeq(s, 1, p) \o <<x>> \o From(s, p + 1)    \* x after the first p
RemoveAt(s, k) == SubSeq(s, 1, k - 1) \o From(s, k + 1)
ReplaceAt(s, k, x) == [s EXCEPT ![k] = x]
Rotate(s, k) == From(s, k + 1) \o SubSeq(s, 1, k)

\* BIN files: every prefix of a two-frame stream, frames whose declared body is
\* shorter than the fixed part, and frames with one bad byte.
FrameA == BinSerialize(RecA(<<97, 98>>)).val
FrameB == BinSerialize(RecB("WITHDRAWAL", "PENDING")).val
ShortFrame(n) == YPBN \o ToBeBytes(n, 4) \o SubSeq(FrameA, HEAD_LEN + 1, HEAD_LEN + n)
BinInputs ==
    {SubSeq(FrameA \o FrameB, 1, n) : n \in 0..Len(FrameA \o FrameB)}
    \cup {ShortFrame(n) \o FrameB : n \in 0..(FIXED_LEN - 1)}
    \cup {ReplaceAt(FrameA, HEAD_LEN + 9, 3) \o FrameB,
          ReplaceAt(FrameA, HEAD_LEN + 42, 9) \o FrameB,
          ReplaceAt(FrameA, HEAD_LEN + 47, 255) \o FrameB}

\* A BIN file with the first four bytes of every frame head replaced by tag
RECURSIVE Retagged(_, _)
Retagged(src, tag) ==
    LET body_size == FromBeBytes(SubSeq(src, 5, HEAD_LEN))
    IN  IF Len(src) < HEAD_LEN
        THEN SubSeq(tag, 1, IF Len(src) < 4 THEN Len(src) ELSE 4) \o From(src, 5)
        ELSE IF Len(src) < HEAD_LEN + body_size THEN tag \o From(src, 5)
        ELSE tag \o SubSeq(src, 5, HEAD_LEN + body_size)
             \o Retagged(From(src, HEAD_LEN + body_size + 1), tag)
OtherTag == <<0, 255, 66, 78>>

\* TXT files, as lists of lines.
FieldLine(name, value) == name \o <<COLON, SP>> \o value
CommentLine == <<HASH, SP, 82>>                               \* "# R"
LinesA ==
    << FieldLine(DESCRIPTION, <<97, 98>>), FieldLine(TIMESTAMP, U64ToString(70000)),
       FieldLine(STATUS, StatusDisplay("SUCCESS")), FieldLine(AMOUNT, U64ToString(1000)),
       FieldLine(TX_ID, U64ToString(1)), FieldLine(TX_TYPE, TxTypeDisplay("DEPOSIT")),
       FieldLine(FROM_USER, U64ToString(2)), FieldLine(TO_USER, U64ToString(3)) >>
LinesB ==
    << FieldLine(TO_USER, U64ToString(5)), FieldLine(TX_TYPE, TxTypeDisplay("WITHDRAWAL")),
       FieldLine(AMOUNT, U64ToString(1456)), FieldLine(DESCRIPTION, <<100, 50>>),
       FieldLine(STATUS, StatusDisplay("PENDING")), FieldLine(FROM_USER, U64ToString(6)),
       FieldLine(TIMESTAMP, U64ToString(1633036860)), FieldLine(TX_ID, U64ToString(1000)) >>
TwoRecords == LinesA \o << <<>> >> \o LinesB
BadLines ==
    { <<70, 79, 79>> \o <<COLON, SP, 49>>,     \* "FOO: 1"
      <<70, 79, 79>> \o <<COLON>>,             \* "FOO:"
      <<70, 79, 79>>,                          \* "FOO"
      TX_ID \o <<COLON>>,                      \* "TX_ID:"
      TX_ID \o <<COLON, SP, 120>>,             \* "TX_ID: x"
      AMOUNT \o <<COLON, 53>>,                 \* "AMOUNT:5"
      AMOUNT \o <<COLON, SP, SP, 53>>,         \* "AMOUNT:  5"
      AMOUNT \o <<COLON, SP, 55>>,             \* "AMOUNT: 7"
      DESCRIPTION \o <<COLON, SP, 97, COLON, 98>>,  \* "DESCRIPTION: a:b"
      DESCRIPTION \o <<COLON, 195, 169>>,      \* "DESCRIPTION:é"
      <<SP, HASH, 99>>,                        \* " #c"
      <<CR>> }                                 \* "\r"
NotUtf8Line == DESCRIPTION \o <<COLON, SP, 255, 97>>   \* not a UTF-8 text
TxtLineLists ==
    {InsertAt(TwoRecords, p, CommentLine) : p \in 0..Len(TwoRecords)}
    \cup {InsertAt(TwoRecords \o << <<>> >>, p, CommentLine) : p \in {0, 9, Len(TwoRecords) + 1}}
    \cup {RemoveAt(LinesA, k) \o << <<>>, CommentLine >> \o LinesB : k \in 1..Len(LinesA)}
    \cup {Rotate(LinesA, k) : k \in 0..(Len(LinesA) - 1)}
    \cup {InsertAt(LinesA, p, b) \o << <<>> >> \o LinesB : p \in {0, 3, 8}, b \in BadLines}
    \cup {InsertAt(LinesA, p, NotUtf8Line) \o << <<>> >> \o LinesB : p \in {0, 3}}
    \cup { <<>>, <<CommentLine>>, << <<>> >>, << <<>> >> \o LinesA,
           LinesA \o << <<>>, <<>> >> \o LinesB, LinesA \o << <<>>, CommentLine, <<>> >> \o LinesB,
           <<CommentLine, CommentLine>> \o LinesA \o <<CommentLine>> }
TxtInputs ==
    {Unlines(l) : l \in TxtLineLists} \cup {DropLast(Unlines(l)) : l \in TxtLineLists \ {<<>>}}

\* A TXT file without its '#' lines (each goes with its line end).
RECURSIVE StripComments(_)
StripComments(src) ==
    LET n == LineLen(src)
    IN  IF src = <<>> THEN <<>>
        ELSE IF src[1] = HASH THEN StripComments(From(src, n + 1))
        ELSE SubSeq(src, 1, n) \o StripComments(From(src, n + 1))

\* CSV files.
CsvHeader == Join(CsvFieldOrder, <<COMMA>>)
CsvRow(r) == Join(CsvColumns(CsvFieldOrder, r).val, <<COMMA>>)
RowA == CsvRow(RecA(<<97, 98>>))
RowB == CsvRow(RecB("TRANSFER", "FAILURE"))
HeaderWith(k, name) == Join(ReplaceAt(CsvFieldOrder, k, name), <<COMMA>>)
\* The same file with its columns in another order: column i is field perm[i]
Permute(s, perm) == [i \in 1..Len(perm) |-> s[perm[i]]]
CsvPermutations ==
    LET n == Len(CsvFieldOrder)
    IN  {[i \in 1..n |-> ((i + k - 1) % n) + 1] : k \in 0..(n - 1)}
        \cup {[i \in 1..n |-> n + 1 - i]}
        \cup {[i \in 1..n |-> IF i = 1 THEN n ELSE IF i = n THEN 1 ELSE i],
              [i \in 1..n |-> IF i = 4 THEN 5 ELSE IF i = 5 THEN 4 ELSE i]}
PermutedCsv(perm) ==
    << Join(Permute(CsvFieldOrder, perm), <<COMMA>>),
       Join(Permute(CsvColumns(CsvFieldOrder, RecA(<<97, 98>>)).val, perm), <<COMMA>>),
       Join(Permute(CsvColumns(CsvFieldOrder, RecB("TRANSFER", "FAILURE")).val, perm), <<COMMA>>) >>
CsvLineLists ==
    { <<CsvHeader, RowA, RowB>>, <<CsvHeader>>, <<>>, <<CsvHeader, <<>>, RowA, <<>>, <<>>, RowB>>,
      <<CsvHeader, RowA \o <<COMMA, 120>>, RowB>>,
      <<CsvHeader, SubSeq(RowA, 1, Len(RowA) - 3), RowB>>,
      <<CsvHeader, <<120>> \o RowA, RowB>>,
      <<CsvHeader, Join(RemoveAt(CsvColumns(CsvFieldOrder, RecA(<<97>>)).val, 3), <<COMMA>>), RowB>>,
      <<Join(RemoveAt(CsvFieldOrder, 5), <<COMMA>>),
        Join(RemoveAt(CsvColumns(CsvFieldOrder, RecA(<<97>>)).val, 5), <<COMMA>>)>> }
    \cup {<<HeaderWith(k, <<70, 79, 79>>), RowA, RowB>> : k \in 1..Len(CsvFieldOrder)}
    \cup {<<HeaderWith(k, <<116, 120, 95, 105, 100>>), RowA>> : k \in {1, 8}}
    \cup {PermutedCsv(perm) : perm \in CsvPermutations}
CsvInputs ==
    {Unlines(l) : l \in CsvLineLists} \cup {DropLast(Unlines(l)) : l \in CsvLineLists \ {<<>>}}

ReadInputs ==
    {[fmt |-> "bin", files |-> <<b, Retagged(b, OtherTag)>>] : b \in BinInputs}
    \cup {[fmt |-> "txt", files |-> <<t, StripComments(t)>>] : t \in TxtInputs}
    \cup {[fmt |-> "csv", files |-> <<c>>] : c \in CsvInputs}

\* Inputs of the comparer and of the converter: a format and a file.
Stream(format, file) == [fmt |-> format, file |-> file]
Streams ==
    { Stream("bin", FrameA \o FrameB), Stream("bin", FrameA), Stream("bin", <<>>),
      Stream("bin", DropLast(FrameA \o FrameB)),
      Stream("bin", FrameA \o ReplaceAt(FrameB, HEAD_LEN + 42, 9)),
      Stream("bin", FrameA \o ShortFrame(0)),
      Stream("txt", Unlines(TwoRecords)), Stream("txt", Unlines(LinesA)),
      Stream("txt", DropLast(Unlines(InsertAt(TwoRecords, 3, CommentLine)))),
      Stream("txt", Unlines(LinesA \o << <<>>, <<>> >> \o LinesB)),
      Stream("txt", Unlines(LinesA \o << <<>> >> \o RemoveAt(LinesB, 2))),
      Stream("txt", Unlines(LinesA \o << <<>>, TX_ID \o <<COLON>> >>)),
      Stream("csv", Unlines(<<CsvHeader, RowA, CsvRow(RecB("WITHDRAWAL", "PENDING"))>>)),
      Stream("csv", Unlines(<<CsvHeader, RowA, RowB>>)),
      Stream("csv", Unlines(<<CsvHeader, RowA>>)),
      Stream("csv", Unlines(<<CsvHeader, RowA, RowB \o <<COMMA, 120>> >>)) }

\* Inputs of the pure functions.
FieldNames == {CsvFieldOrder[i] : i \in 1..Len(CsvFieldOrder)}
UnknownNames ==
    { <<70, 79, 79>>,                   \* "FOO"
      <<116, 120, 95, 105, 100>>,       \* "tx_id"
      TX_ID \o <<SP>>,                  \* "TX_ID "
      <<SP>> \o AMOUNT,                 \* " AMOUNT"
      <<84, 88>>,                       \* "TX"
      <<>> }
TextValueInputs ==
    { <<>>, <<49>>, <<52, 50>>, <<PLUS, 55>>, <<120>>, <<45, 49>>,
      TxTypeDisplay("TRANSFER"), StatusDisplay("PENDING"), <<97, 98>> }
BinValueInputs ==
    { <<>>, <<0>>, <<2>>, <<3>>, <<255>>, <<97, 98>>, ToBeBytes(1000, 8), ToBeBytes(7, 4) }

\* Lines given to FieldValue::try_from on their own
LineInputs ==
    BadLines \cup {LinesA[i] : i \in 1..Len(LinesA)}
    \cup { DESCRIPTION \o <<COLON, 120, 121>>,        \* "DESCRIPTION:xy"
           DESCRIPTION \o <<COLON, SP, SP, 97>>,      \* "DESCRIPTION:  a"
           DESCRIPTION \o <<COLON, SP>>,              \* "DESCRIPTION: "
           TX_ID \o <<COLON, SP, 52, 50>> \o <<COLON>> }  \* "TX_ID: 42:"

\* Description lengths given to the serializer's length computation, as halves
DescLengthInputs ==
    { <<0, 0>>, <<0, 2>>, <<0, 65489>>, <<0, 65490>>, <<0, 65535>>, <<1, 0>>, <<255, 65535>>,
      <<32768, 0>>, <<65535, 0>>, <<65535, 65489>>, <<65535, 65490>>, <<65535, 65535>> }

FieldValuesA ==
    << FieldValue("TxId", 1), FieldValue("TxType", "DEPOSIT"), FieldValue("FromUser", 2),
       FieldValue("ToUser", 3), FieldValue("Amount", 1000), FieldValue("Timestamp", 70000),
       FieldValue("Status", "SUCCESS"), FieldValue("Description", <<97, 98>>) >>
FieldValuesB ==
    << FieldValue("TxId", 9), FieldValue("TxType", "TRANSFER"), FieldValue("FromUser", 8),
       FieldValue("ToUser", 7), FieldValue("Amount", 6), FieldValue("Timestamp", 5),
       FieldValue("Status", "FAILURE"), FieldValue("Description", <<>>) >>
RECURSIVE Pick(_, _)
Pick(fvs, S) ==
    IF fvs = <<>> THEN <<>>
    ELSE Pick(DropLast(fvs), S) \o (IF Len(fvs) \in S THEN <<Last(fvs)>> ELSE <<>>)
Reverse(s) == [i \in 1..Len(s) |-> s[Len(s) + 1 - i]]
\* A Vec<FieldValue>: the values of FieldValuesA at the indices S, as they stand
\* or reversed, with a second value for field d put after or before them.
FieldValueShapes == {"plain", "reversed", "dup-after", "dup-before"}
FieldValueSeq(S, shape, d) ==
    CASE shape = "plain" -> Pick(FieldValuesA, S)
      [] shape = "reversed" -> Reverse(Pick(FieldValuesA, S))
      [] shape = "dup-after" -> Pick(FieldValuesA, S) \o <<FieldValuesB[d]>>
      [] shape = "dup-before" -> <<FieldValuesB[d]>> \o Pick(FieldValuesA, S)

----------------------------------------------------------------------------
(* The driver: build the codecs, write the records, then read files back.  *)

NoCall == <<>>

InitConvert ==
    /\ task = "convert"
    /\ pc = "build"
    /\ fmt \in FormatInputs
    /\ fmt2 = fmt
    /\ recs \in (IF fmt \in Formats THEN RecSeqs ELSE {<<>>})
    /\ files = << <<>> >>

InitRead ==
    /\ task = "read"
    /\ pc = "open"
    /\ recs = <<>>
    /\ \E input \in ReadInputs : fmt = input.fmt /\ fmt2 = input.fmt /\ files = input.files

InitUnit ==
    /\ task = "unit"
    /\ pc = "unit"
    /\ fmt = ""
    /\ fmt2 = ""
    /\ recs = <<>>
    /\ files = <<>>

\* comparer: two files, each with its format
InitComparer ==
    /\ task = "comparer"
    /\ pc = "open"
    /\ recs = <<>>
    /\ \E a \in Streams, b \in Streams :
        fmt = a.fmt /\ fmt2 = b.fmt /\ files = <<a.file, b.file>>

\* converter: the output (file 1, format fmt) and the input (file 2, format fmt2)
InitConverter ==
    /\ task = "converter"
    /\ pc = "start"
    /\ recs = <<>>
    /\ fmt \in Formats
    /\ \E a \in Streams : fmt2 = a.fmt /\ files = << <<>>, a.file >>

Init ==
    /\ InitConvert \/ InitRead \/ InitUnit \/ InitComparer \/ InitConverter
    /\ written = 0
    /\ serializer = None
    /\ writer = None
    /\ readers = [i \in 1..Len(files) |-> None]
    /\ results = [i \in 1..Len(files) |-> <<>>]
    /\ call = NoCall

\* build_serializer(format)
DoBuildSerializer ==
    /\ pc = "build"
    /\ serializer = None
    /\ serializer' = Some(BuildSerializer(fmt))
    /\ pc' = IF task = "converter" /\ ~serializer'[1].ok THEN "failed" ELSE pc
    /\ UNCHANGED <<task, fmt, fmt2, recs, written, writer, files, readers, results, call>>

\* build_writer(sink, format); with both codecs the driver goes on to write
DoBuildWriter ==
    /\ pc = "build"
    /\ serializer # None
    /\ writer = None
    /\ writer' = Some(BuildWriter(fmt))
    /\ pc' = IF serializer[1].ok /\ writer'[1].ok THEN "header"
             ELSE IF task = "converter" THEN "failed"
             ELSE "open"
    /\ UNCHANGED <<task, fmt, fmt2, recs, written, serializer, files, readers, results, call>>

\* output_writer.write_header()
DoWriteHeader ==
    /\ pc = "header"
    /\ files' = [files EXCEPT ![1] = WriteHeader(writer[1].val, @)]
    /\ pc' = IF task = "converter" THEN "convert" ELSE "records"
    /\ UNCHANGED <<task, fmt, fmt2, recs, written, serializer, writer, readers, results, call>>

\* serializer.serialize(&record) and output_writer.write(result) for the next record
DoConvertRecord ==
    /\ pc = "records"
    /\ written < Len(recs)
    /\ LET data == Serialize(serializer[1].val, recs[written + 1])
       IN  IF data.ok
           THEN /\ files' = [files EXCEPT ![1] = Write(writer[1].val, @, data.val)]
                /\ written' = written + 1
                /\ pc' = pc
           ELSE /\ pc' = "failed"
                /\ UNCHANGED <<files, written>>
    /\ UNCHANGED <<task, fmt, fmt2, recs, serializer, writer, readers, results, call>>

\* The format string given to build_reader for file i
ReaderFormat(i) == IF i = 2 THEN fmt2 ELSE fmt

\* build_reader(source, format), file by file, once nothing more is written; a
\* failure ends the run
DoBuildReader ==
    /\ IF pc = "records" THEN written = Len(recs) ELSE pc = "open"
    /\ \E i \in 1..Len(files) :
        /\ readers[i] = None
        /\ \A j \in 1..(i - 1) : readers[j] # None
        /\ LET r == BuildReader(files[i], ReaderFormat(i))
           IN  /\ readers' = [readers EXCEPT ![i] = Some(r)]
               /\ pc' = IF ~r.ok THEN "failed"
                        ELSE IF i < Len(files) THEN "open"
                        ELSE IF task = "comparer" THEN "compare"
                        ELSE "read"
    /\ UNCHANGED <<task, fmt, fmt2, recs, written, serializer, writer, files, results, call>>

CallLimit == IF task = "convert" THEN Len(recs) + ExtraCalls ELSE MaxCalls

\* A reader can be called again unless its last call panicked.
Callable(i) ==
    /\ pc = "read"
    /\ Len(results[i]) < CallLimit
    /\ IF results[i] = <<>> THEN TRUE ELSE Last(results[i]).tag # "Panic"

Produced(i, s) ==
    /\ readers' = [readers EXCEPT ![i] = Some(Ok(s.rd))]
    /\ results' = [results EXCEPT ![i] = Append(@, s.out)]
    /\ UNCHANGED <<task, pc, fmt, fmt2, recs, written, serializer, writer, files, call>>

\* reader.produce_record() on a CsvReader
ProduceCsv ==
    \E i \in 1..Len(readers) :
        /\ Callable(i)
        /\ readers[i][1].val.kind = "csv"
        /\ Produced(i, CsvProduceRecord(readers[i][1].val))

\* reader.produce_record() on a TxtReader
ProduceTxt ==
    \E i \in 1..Len(readers) :
        /\ Callable(i)
        /\ readers[i][1].val.kind = "txt"
        /\ Produced(i, TxtProduceRecord(readers[i][1].val))

\* reader.produce_record() on a BinReader
ProduceBin ==
    \E i \in 1..Len(readers) :
        /\ Callable(i)
        /\ readers[i][1].val.kind = "bin"
        /\ Produced(i, BinProduceRecord(readers[i][1].val))

\* converter: build_reader(file, input format), before the output codecs
ConverterBuildReader ==
    /\ task = "converter" /\ pc = "start"
    /\ LET r == BuildReader(files[2], ReaderFormat(2))
       IN  /\ readers' = [readers EXCEPT ![2] = Some(r)]
           /\ pc' = IF r.ok THEN "build" ELSE "failed"
    /\ UNCHANGED <<task, fmt, fmt2, recs, written, serializer, writer, files, results, call>>

\* converter: output_writer.write(result) on the outcome of serializer.serialize
Wrote(data) ==
    IF data.ok
    THEN /\ files' = [files EXCEPT ![1] = Write(writer[1].val, @, data.val)]
         /\ written' = written + 1
         /\ pc' = pc
    ELSE /\ pc' = "failed"
         /\ UNCHANGED <<files, written>>

\* converter: what one turn of the loop does with the reader's result s
Converted(s) ==
    /\ readers' = [readers EXCEPT ![2] = Some(Ok(s.rd))]
    /\ results' = [results EXCEPT ![2] = Append(@, s.out)]
    /\ IF s.out.tag = "Ok"
       THEN Wrote(Serialize(serializer[1].val, s.out.rec))
       ELSE /\ pc' = CASE s.out.tag = "None" -> "done"
                      [] s.out.tag = "Err" -> "failed"
                      [] s.out.tag = "Panic" -> "aborted"
            /\ UNCHANGED <<files, written>>
    /\ UNCHANGED <<task, fmt, fmt2, recs, serializer, writer, call>>

\* converter: while let Some(record_result) = reader.produce_record()
ConverterStep ==
    /\ task = "converter" /\ pc = "convert"
    /\ Converted(ProduceRecord(readers[2][1].val))

\* comparer: the match on the pair of results; "compare" goes on with the loop
CompareVerdict(o1, o2) ==
    IF o1.tag # "None" /\ o2.tag # "None"
    THEN IF o1.tag = "Err" THEN "not identical"
         ELSE IF o2.tag = "Err" THEN "not identical"
         ELSE IF o1.rec # o2.rec THEN "not identical"
         ELSE "compare"
    ELSE IF o1.tag = "None" /\ o2.tag = "None" THEN "identical"
    ELSE "not identical"

\* comparer: one turn of the loop.  A panic of a reader aborts the process.
Compared(s1, s2) ==
    /\ IF s1.out.tag = "Panic"
       THEN /\ readers' = [readers EXCEPT ![1] = Some(Ok(s1.rd))]
            /\ results' = [results EXCEPT ![1] = Append(@, s1.out)]
            /\ pc' = "aborted"
       ELSE /\ readers' = <<Some(Ok(s1.rd)), Some(Ok(s2.rd))>>
            /\ results' = <<Append(results[1], s1.out), Append(results[2], s2.out)>>
            /\ pc' = IF s2.out.tag = "Panic" THEN "aborted"
                     ELSE CompareVerdict(s1.out, s2.out)
    /\ UNCHANGED <<task, fmt, fmt2, recs, written, serializer, writer, files, call>>

CompareStep ==
    /\ task = "comparer"
    /\ pc = "compare"
    /\ Compared(ProduceRecord(readers[1][1].val), ProduceRecord(readers[2][1].val))

UnitIdle == pc = "unit" /\ call = NoCall
UnitUnchanged ==
    UNCHANGED <<task, pc, fmt, fmt2, recs, written, serializer, writer, files, readers, results>>

\* Field<&str, &str>::parse on a (name, value) pair
CallTextFieldParse ==
    /\ UnitIdle
    /\ \E name \in FieldNames \cup UnknownNames, value \in TextValueInputs :
        call' = Some([fn |-> "text_field_parse", name |-> name, value |-> value,
                      ret |-> TextFieldParse(name, value)])
    /\ UnitUnchanged

\* Field<&str, &[u8]>::parse on a (name, value) pair
CallBinFieldParse ==
    /\ UnitIdle
    /\ \E name \in FieldNames \cup UnknownNames, value \in BinValueInputs :
        call' = Some([fn |-> "bin_field_parse", name |-> name, value |-> value,
                      ret |-> BinFieldParse(name, value)])
    /\ UnitUnchanged

\* Record::try_from on a Vec<FieldValue>
CallRecordTryFrom ==
    /\ UnitIdle
    /\ \E S \in SUBSET (1..Len(FieldValuesA)), shape \in FieldValueShapes, d \in {1, 5, 8} :
        /\ shape \in {"plain", "reversed"} => d = 1
        /\ call' = Some([fn |-> "record_try_from", fields |-> FieldValueSeq(S, shape, d),
                         ret |-> RecordTryFrom(FieldValueSeq(S, shape, d))])
    /\ UnitUnchanged

\* FieldValue::try_from(Data::new(line))
CallFieldValueTryFrom ==
    /\ UnitIdle
    /\ \E line \in LineInputs :
        call' = Some([fn |-> "field_value_try_from", line |-> line,
                      ret |-> LineToFieldValue(line)])
    /\ UnitUnchanged

\* The conversions of a TxType: to a byte, to text, and back
CallTxTypeConversions ==
    /\ UnitIdle
    /\ \E t \in TxType :
        call' = Some([fn |-> "tx_type_conversions", variant |-> t,
                      byte |-> TxTypeToU8(t), display |-> TxTypeDisplay(t),
                      str |-> TxTypeToStr(t),
                      from_byte |-> TxTypeFromU8(TxTypeToU8(t)),
                      from_display |-> TxTypeFromStr(TxTypeDisplay(t)),
                      from_str |-> TxTypeFromStr(TxTypeToStr(t))])
    /\ UnitUnchanged

\* The conversions of a Status: to a byte, to text, and back
CallStatusConversions ==
    /\ UnitIdle
    /\ \E t \in Status :
        call' = Some([fn |-> "status_conversions", variant |-> t,
                      byte |-> StatusToU8(t), display |-> StatusDisplay(t),
                      str |-> StatusToStr(t),
                      from_byte |-> StatusFromU8(StatusToU8(t)),
                      from_display |-> StatusFromStr(StatusDisplay(t)),
                      from_str |-> StatusFromStr(StatusToStr(t))])
    /\ UnitUnchanged

\* RecordBytes::serialize on a record whose description has len bytes: the body
\* length of the head and the description_length field
CallSerializeLengths ==
    /\ UnitIdle
    /\ \E len \in DescLengthInputs, overflow_checks \in BOOLEAN :
        call' = Some([fn |-> "serialize_lengths", len |-> len,
                      overflow_checks |-> overflow_checks,
                      ret |-> SerializeLengths(len, overflow_checks)])
    /\ UnitUnchanged

Next ==
    \/ DoBuildSerializer
    \/ DoBuildWriter
    \/ DoWriteHeader
    \/ DoConvertRecord
    \/ DoBuildReader
    \/ ProduceCsv
    \/ ProduceTxt
    \/ ProduceBin
    \/ CompareStep
    \/ ConverterBuildReader
    \/ ConverterStep
    \/ CallTextFieldParse
    \/ CallBinFieldParse
    \/ CallRecordTryFrom
    \/ CallFieldValueTryFrom
    \/ CallTxTypeConversions
    \/ CallStatusConversions
    \/ CallSerializeLengths

Spec == Init /\ [][Next]_vars

----------------------------------------------------------------------------
(* Reading a file as text, independently of the readers: used to say what  *)
(* a claim expects of a given input.                                       *)

Min(S) == CHOOSE x \in S : \A y \in S : x <= y
LineEnd(src, a) ==       \* position of the '\n' ending the line that starts at a
    IF \E i \in a..Len(src) : src[i] = NL THEN Min({i \in a..Len(src) : src[i] = NL})
    ELSE Len(src) + 1
LineStarts(src) ==
    IF src = <<>> THEN {} ELSE {1} \cup {i + 1 : i \in {j \in 1..(Len(src) - 1) : src[j] = NL}}
LineAt(src, a) == SubSeq(src, a, LineEnd(src, a) - 1)
IsComment(src, a) == src[a] = HASH
IsBlank(src, a) == src[a] = NL
\* Start of the first blank line, or 0
FirstBlank(src) ==
    IF \E a \in LineStarts(src) : IsBlank(src, a)
    THEN Min({a \in LineStarts(src) : IsBlank(src, a)}) ELSE 0
\* The first run: the non-comment lines before the first blank line
RunStarts(src) ==
    {a \in LineStarts(src) : ~IsComment(src, a) /\ (FirstBlank(src) = 0 \/ a < FirstBlank(src))}
RunLines(src) == {LineAt(src, a) : a \in RunStarts(src)}
AfterRun(src) == IF FirstBlank(src) = 0 THEN <<>> ELSE From(src, FirstBlank(src) + 1)
\* The name of a line of the form "NAME: value", or of a comma-separated column
HasFieldForm(line) ==
    \E c \in 1..(Len(line) - 1) :
        line[c] = COLON /\ line[c + 1] = SP /\ \A j \in 1..(c - 1) : line[j] # COLON
NameOf(line) == SubSeq(line, 1, Min({c \in 1..Len(line) : line[c] = COLON}) - 1)
Columns(line) ==
    LET cuts == {0, Len(line) + 1} \cup {c \in 1..Len(line) : line[c] = COMMA}
    IN  {SubSeq(line, a + 1, Min({b \in cuts : b > a}) - 1) : a \in cuts \ {Len(line) + 1}}

TheReader(i) == readers[i][1].val
\* Reader i has just returned from a produce_record call (in an action formula)
JustCalled(i) == pc = "read" /\ Len(results'[i]) = Len(results[i]) + 1

----------------------------------------------------------------------------
(* Claims.                                                                 *)

\* C1: BIN round trip.  Reading the bytes the BIN serializer and writer gave
\* for a sequence of records yields these records, equal and in order, and then
\* end-of-stream.
C1_BinRoundTrip ==
    (task = "convert" /\ fmt = "bin" /\ pc = "read") =>
        \A k \in 1..Len(results[1]) :
            results[1][k] = IF k <= Len(recs) THEN OutOk(recs[k]) ELSE OutNone

C1_Witness ==
    /\ task = "convert" /\ fmt = "bin" /\ pc = "read"
    /\ Len(recs) = 2 /\ recs[1].description = <<195, 169>>
    /\ Len(results[1]) = 3 /\ results[1][3] = OutNone

\* C2: CSV round trip for every description.  Reading what the CSV serializer
\* and writer gave (header, then one line per record) yields the records
\* written, equal and in order, whatever their description holds.
C2_CsvRoundTrip ==
    (task = "convert" /\ fmt = "csv" /\ pc = "read") =>
        \A k \in 1..Len(results[1]) : k <= Len(recs) => results[1][k] = OutOk(recs[k])

\* C3: Exhaustion.  Once every record of a well-formed stream has been
\* produced, each further produce_record call returns None, never an error:
\* for what the three writers gave, and for well-formed files with two records.
PlainFor(format, description) ==
    CASE format = "csv" -> \A i \in 1..Len(description) :
                               description[i] \notin {COMMA, QUOTE, NL, CR}
      [] format = "txt" -> \A i \in 1..Len(description) : description[i] # NL
      [] format = "bin" -> TRUE
WellFormedTwoRecordFiles ==
    {Unlines(InsertAt(TwoRecords, p, CommentLine)) : p \in 0..Len(TwoRecords)}
    \cup {DropLast(Unlines(InsertAt(TwoRecords, p, CommentLine))) : p \in 0..Len(TwoRecords)}
    \cup {Unlines(<<CsvHeader, RowA, RowB>>), DropLast(Unlines(<<CsvHeader, RowA, RowB>>)),
          FrameA \o FrameB}
RecordsThenNone(outs, n) ==
    \A k \in 1..Len(outs) : outs[k].tag = IF k <= n THEN "Ok" ELSE "None"
C3_Exhaustion ==
    /\ (task = "convert" /\ pc = "read"
            /\ \A k \in 1..Len(recs) : PlainFor(fmt, recs[k].description))
        => RecordsThenNone(results[1], Len(recs))
    /\ (task = "read" /\ pc = "read" /\ files[1] \in WellFormedTwoRecordFiles)
        => RecordsThenNone(results[1], 2)

C3_Witness ==
    /\ task = "convert" /\ fmt = "csv" /\ pc = "read"
    /\ Len(recs) = 2 /\ \A k \in 1..Len(recs) : PlainFor(fmt, recs[k].description)
    /\ Len(results[1]) = Len(recs) + 2
    /\ results[1][Len(recs) + 1] = OutNone /\ results[1][Len(recs) + 2] = OutNone

\* C4: Missing-field rejection.  Record::try_from succeeds exactly when all
\* eight fields occur in the sequence, and otherwise fails with the message that
\* names the first missing field in the order tx_id, tx_type, from_user,
\* to_user, amount, timestamp, status, description.
FieldOrderOfClaim ==
    << <<"TxId", "missing field tx_id">>, <<"TxType", "missing field tx_type">>,
       <<"FromUser", "missing field from_user">>, <<"ToUser", "missing field to_user">>,
       <<"Amount", "missing field amount">>, <<"Timestamp", "missing field timestamp">>,
       <<"Status", "missing field status">>, <<"Description", "missing field description">> >>
MissingIn(fvs) ==
    {k \in 1..Len(FieldOrderOfClaim) :
        \A i \in 1..Len(fvs) : fvs[i].tag # FieldOrderOfClaim[k][1]}
C4_MissingField ==
    (call # NoCall /\ call[1].fn = "record_try_from") =>
        IF MissingIn(call[1].fields) = {} THEN call[1].ret.ok
        ELSE /\ ~call[1].ret.ok
             /\ call[1].ret.err = FieldOrderOfClaim[Min(MissingIn(call[1].fields))][2]

C4_Witness ==
    /\ call # NoCall /\ call[1].fn = "record_try_from"
    /\ MissingIn(call[1].fields) = {5, 7}
    /\ call[1].ret = Err("missing field amount")

\* C5: Unknown-field rejection.  Parsing a pair whose name is not one of the
\* eight constants returns the "unknown field" error, in the text parser and in
\* the binary parser; a CSV file whose header holds such a name, and a TXT file
\* whose first record holds a "NAME: value" line with such a name, make the
\* first produce_record call return an error.
IsUnknownFieldError(e) == e.text = "unknown field: " /\ e.source = None
HasDataRow(src) == \E a \in LineStarts(src) : a > 1 /\ ~IsBlank(src, a)
C5_UnknownField ==
    /\ (call # NoCall /\ call[1].fn = "text_field_parse" /\ call[1].name \notin FieldNames)
        => (~call[1].ret.ok /\ IsUnknownFieldError(call[1].ret.err)
            /\ call[1].ret.err.arg = call[1].name)
    /\ (call # NoCall /\ call[1].fn = "bin_field_parse" /\ call[1].name \notin FieldNames)
        => (~call[1].ret.panic /\ ~call[1].ret.res.ok
            /\ IsUnknownFieldError(call[1].ret.res.err)
            /\ call[1].ret.res.err.arg = call[1].name)
    /\ (task = "read" /\ pc = "read" /\ fmt = "csv" /\ Len(results[1]) >= 1
            /\ files[1] # <<>> /\ HasDataRow(files[1])
            /\ \E n \in Columns(LineAt(files[1], 1)) : n \notin FieldNames)
        => results[1][1].tag = "Err"
    /\ (task = "read" /\ pc = "read" /\ fmt = "txt" /\ Len(results[1]) >= 1
            /\ \E l \in RunLines(files[1]) : HasFieldForm(l) /\ NameOf(l) \notin FieldNames)
        => results[1][1].tag = "Err"

C5_Witness ==
    /\ task = "read" /\ pc = "read" /\ fmt = "txt" /\ Len(results[1]) >= 1
    /\ \E l \in RunLines(files[1]) : HasFieldForm(l) /\ NameOf(l) \notin FieldNames
    /\ results[1][1].tag = "Err"
    /\ results[1][1].err.source # None
    /\ IsUnknownFieldError(results[1][1].err.source[1])

\* C6: Dispatch.  Each of build_reader, build_serializer and build_writer
\* returns the codec of the format for "csv", "txt" and "bin", and the
\* "unsupported format" error for every other string.
Dispatched(built, format) ==
    IF format = "csv" \/ format = "txt" \/ format = "bin"
    THEN built.ok /\ built.val.kind = format
    ELSE ~built.ok /\ built.err.text = "given an unsupported format " /\ built.err.format = format
C6_Dispatch ==
    /\ serializer # None => Dispatched(serializer[1], fmt)
    /\ writer # None => Dispatched(writer[1], fmt)
    /\ \A i \in 1..Len(readers) : readers[i] # None => Dispatched(readers[i][1], ReaderFormat(i))

C6_Witness ==
    /\ fmt = "CSV"
    /\ serializer # None /\ writer # None /\ Len(readers) = 1 /\ readers[1] # None
    /\ ~serializer[1].ok /\ ~writer[1].ok /\ ~readers[1][1].ok

\* C7: BIN short read.  A produce_record call on a source with fewer than 8
\* bytes left returns None; a call on a source that holds a complete head but
\* fewer body bytes than the head declares returns an error, not None.
C7_BinShortRead ==
    [][\A i \in 1..Len(results) :
        (fmt = "bin" /\ JustCalled(i) /\ ~TheReader(i).is_exhausted) =>
            LET src == TheReader(i).source
                out == Last(results'[i])
            IN  /\ Len(src) < 8 => out.tag = "None"
                /\ (Len(src) >= 8 /\ Len(src) - 8 < FromBeBytes(SubSeq(src, 5, 8)))
                    => out.tag = "Err"]_vars

\* C8: BIN short body.  A produce_record call on a source that holds a complete
\* frame whose declared body is shorter than the 46-byte fixed part returns an
\* error value; it does not panic.
C8_BinShortBody ==
    [][\A i \in 1..Len(results) :
        (fmt = "bin" /\ JustCalled(i) /\ ~TheReader(i).is_exhausted) =>
            LET src == TheReader(i).source
                out == Last(results'[i])
            IN  (Len(src) >= 8 /\ FromBeBytes(SubSeq(src, 5, 8)) < 46
                    /\ Len(src) - 8 >= FromBeBytes(SubSeq(src, 5, 8)))
                    => out.tag = "Err"]_vars

\* C9: TXT comments.  A TXT file and the same file without its '#' lines give
\* the same sequence of produce_record outcomes (records, errors with their
\* causes, end-of-stream); the line number in an error message aside.
SameOutcome(a, b) ==
    /\ a.tag = b.tag
    /\ a.tag = "Ok" => a.rec = b.rec
    /\ a.tag = "Err" => (a.err.text = b.err.text /\ a.err.source = b.err.source)
C9_TxtComments ==
    (task = "read" /\ fmt = "txt" /\ pc = "read") =>
        \A k \in 1..Len(results[1]) :
            k <= Len(results[2]) => SameOutcome(results[1][k], results[2][k])

C9_Witness ==
    /\ task = "read" /\ fmt = "txt" /\ pc = "read"
    /\ files[1] = Unlines(InsertAt(TwoRecords, 3, CommentLine))
    /\ files[2] # files[1]
    /\ Len(results[1]) = 3 /\ Len(results[2]) = 3
    /\ results[1][2].tag = "Ok" /\ results[1][3].tag = "None"

\* C10: TXT record delimiting.  A produce_record call on a source whose first
\* run (the non-comment lines before the first blank line) holds only field
\* lines consumes the input through that blank line, or all of it; it returns
\* an error if the run names some but not all of the eight fields, a record if
\* it names all eight (the same record in any order of the lines), and None if
\* the run is empty and the input ends without a blank line.
GoodLines == {LinesA[i] : i \in 1..Len(LinesA)} \cup {LinesB[i] : i \in 1..Len(LinesB)}
                \cup {AMOUNT \o <<COLON, SP, 55>>}
C10_TxtDelimiting ==
    [][\A i \in 1..Len(results) :
        (fmt = "txt" /\ JustCalled(i) /\ RunLines(TheReader(i).source) \subseteq GoodLines) =>
            LET src == TheReader(i).source
                run == RunLines(src)
                names == {NameOf(l) : l \in run}
                out == Last(results'[i])
            IN  /\ readers'[i][1].val.source = AfterRun(src)
                /\ (run # {} /\ names # FieldNames) => out.tag = "Err"
                /\ names = FieldNames => out.tag = "Ok"
                /\ run = {LinesA[k] : k \in 1..Len(LinesA)} => out = OutOk(RecA(<<97, 98>>))
                /\ run = {LinesB[k] : k \in 1..Len(LinesB)}
                    => out = OutOk(RecB("WITHDRAWAL", "PENDING"))
                /\ (run = {} /\ FirstBlank(src) = 0) => out.tag = "None"]_vars

C10_Witness ==
    /\ task = "read" /\ fmt = "txt" /\ pc = "read"
    /\ files[1] = Unlines(RemoveAt(LinesA, 4) \o << <<>>, CommentLine >> \o LinesB)
    /\ Len(results[1]) = 3
    /\ results[1][1].tag = "Err" /\ results[1][2].tag = "Ok" /\ results[1][3].tag = "None"
    /\ TheReader(1).source = <<>>

\* C11: TXT field line parsing.  For a line that holds a ':', FieldValue::try_from
\* parses the pair whose name is the text before the first ':' and whose value
\* is the text after it, less one leading space if there is one: later ':' and a
\* second space stay in the value, and a first character that is no space stays.
AfterFirstColon(line) == From(line, Min({c \in 1..Len(line) : line[c] = COLON}) + 1)
TrimOneSpace(value) == IF value # <<>> /\ value[1] = SP THEN Tail(value) ELSE value
C11_TxtLineParsing ==
    (call # NoCall /\ call[1].fn = "field_value_try_from"
        /\ \E c \in 1..Len(call[1].line) : call[1].line[c] = COLON) =>
        /\ ~call[1].ret.panic
        /\ call[1].ret.res
            = TextFieldParse(NameOf(call[1].line), TrimOneSpace(AfterFirstColon(call[1].line)))

\* C12: CSV header zip.  For a CSV file whose header lists the eight field names
\* in any order and whose record lines have their columns in that same order,
\* produce_record returns the records that the file with the columns in the
\* canonical order gives.
C12_CsvHeaderZip ==
    \A perm \in CsvPermutations :
        (task = "read" /\ fmt = "csv" /\ pc = "read"
            /\ files[1] \in {Unlines(PermutedCsv(perm)), DropLast(Unlines(PermutedCsv(perm)))}) =>
            \A k \in 1..Len(results[1]) :
                results[1][k] = CASE k = 1 -> OutOk(RecA(<<97, 98>>))
                                  [] k = 2 -> OutOk(RecB("TRANSFER", "FAILURE"))
                                  [] OTHER -> OutNone

C12_Witness ==
    /\ task = "read" /\ fmt = "csv" /\ pc = "read"
    /\ files[1] = Unlines(PermutedCsv([i \in 1..Len(CsvFieldOrder) |-> Len(CsvFieldOrder) + 1 - i]))
    /\ LineAt(files[1], 1) # CsvHeader
    /\ Len(results[1]) = 3
    /\ results[1][2] = OutOk(RecB("TRANSFER", "FAILURE")) /\ results[1][3] = OutNone

\* C13: BIN wire layout.  What the BIN serializer and writer give for the
\* records written is, frame after frame, "YPBN", the body length in 4 bytes,
\* and a body with tx_id at [0,8), tx_type at [8,9), from_user at [9,17),
\* to_user at [17,25), amount at [25,33), timestamp at [33,41), status at
\* [41,42), the description's length at [42,46) and the description from 46 on,
\* integers big-endian, tx_type 0/1/2 for DEPOSIT/TRANSFER/WITHDRAWAL and status
\* 0/1/2 for SUCCESS/FAILURE/PENDING; the BIN reader gives the records back
\* from these bytes.
WireByte(v, o, first, n) ==     \* byte at offset o of the n-byte integer v put at first
    LET shift == first + n - 1 - o
    IN  IF shift >= 4 THEN 0 ELSE (v \div (256 ^ shift)) % 256    \* v < 2^31
WireTxType(t) == CASE t = "DEPOSIT" -> 0 [] t = "TRANSFER" -> 1 [] t = "WITHDRAWAL" -> 2
WireStatus(t) == CASE t = "SUCCESS" -> 0 [] t = "FAILURE" -> 1 [] t = "PENDING" -> 2
WireBody(r) ==
    [i \in 1..(46 + Len(r.description)) |->
        LET o == i - 1
        IN  CASE o < 8 -> WireByte(r.tx_id, o, 0, 8)
              [] o = 8 -> WireTxType(r.tx_type)
              [] o >= 9 /\ o < 17 -> WireByte(r.from_user, o, 9, 8)
              [] o >= 17 /\ o < 25 -> WireByte(r.to_user, o, 17, 8)
              [] o >= 25 /\ o < 33 -> WireByte(r.amount, o, 25, 8)
              [] o >= 33 /\ o < 41 -> WireByte(r.timestamp, o, 33, 8)
              [] o = 41 -> WireStatus(r.status)
              [] o >= 42 /\ o < 46 -> WireByte(Len(r.description), o, 42, 4)
              [] OTHER -> r.description[o - 45]]
WireFrame(r) ==
    <<89, 80, 66, 78>> \o [i \in 1..4 |-> WireByte(46 + Len(r.description), i - 1, 0, 4)]
        \o WireBody(r)
C13_BinWireLayout ==
    (task = "convert" /\ fmt = "bin" /\ pc \in {"records", "read"}) =>
        /\ files[1] = Concat([k \in 1..written |-> WireFrame(recs[k])])
        /\ \A k \in 1..Len(results[1]) : k <= Len(recs) => results[1][k] = OutOk(recs[k])

C13_Witness ==
    /\ task = "convert" /\ fmt = "bin" /\ pc = "read"
    /\ Len(recs) = 2 /\ written = 2
    /\ recs[1].tx_type = "TRANSFER" /\ recs[1].status = "FAILURE"
    /\ recs[2].tx_type = "WITHDRAWAL" /\ recs[2].status = "PENDING"
    /\ files[1] = WireFrame(recs[1]) \o WireFrame(recs[2])
    /\ Len(results[1]) = 2 /\ results[1][2] = OutOk(recs[2])

\* C14: Error cause chain.  Every error that produce_record returns leads,
\* cause by cause, to the failure it started from: no error that reports the
\* failure of a step (a read, the parsing of a field or of a record) is the
\* last of its chain.
RECURSIVE RootCause(_)
RootCause(e) == IF e.source = None THEN e ELSE RootCause(e.source[1])
StepFailureTexts ==
    { "failed to parse tx_id", "failed to parse tx_type", "failed to parse status",
      "failed to parse from_user", "failed to parse to_user", "failed to parse amount",
      "failed to parse timestamp", "failed to parse description",
      "failed to parse field ", "failed to parse record", "failed to read record",
      "couldn't read data", "failed to read line ", "failed to parse field. line ",
      "failed to parse record. near line ", "failed to produce record. line ",
      "couldn't parse record. near line ", "failed to read headers from csv file" }
C14_ErrorCauseChain ==
    \A i \in 1..Len(results) : \A k \in 1..Len(results[i]) :
        results[i][k].tag = "Err" => RootCause(results[i][k].err).text \notin StepFailureTexts

\* C15: Enum mapping consistency.  For every TxType and every Status variant,
\* parsing its byte, its Display text and its From<T> for &str text gives the
\* variant back, and the two texts are equal.
C15_EnumMapping ==
    (call # NoCall /\ call[1].fn \in {"tx_type_conversions", "status_conversions"}) =>
        /\ call[1].from_byte = Ok(call[1].variant)
        /\ call[1].from_display = Ok(call[1].variant)
        /\ call[1].from_str = Ok(call[1].variant)
        /\ call[1].display = call[1].str

\* C16: Comparer verdict.  The comparer calls both readers once per turn; it
\* goes on while both return records that are equal, reports "identical" only
\* when every pair was equal and both readers return None in the same turn, in
\* which case both inputs hold the same number of records, and reports "not
\* identical" at the first pair with different records, with an error on either
\* side, or with None on one side only.
RECURSIVE FramesHeld(_)
FramesHeld(src) ==
    IF Len(src) < 8 THEN 0
    ELSE IF Len(src) - 8 < FromBeBytes(SubSeq(src, 5, 8)) THEN 0
    ELSE 1 + FramesHeld(From(src, 9 + FromBeBytes(SubSeq(src, 5, 8))))
IsFieldLineAt(src, a) == ~IsBlank(src, a) /\ ~IsComment(src, a)
\* Starts of the runs of field lines: the line before (comments aside) is blank
RunHeads(src) ==
    {a \in LineStarts(src) :
        /\ IsFieldLineAt(src, a)
        /\ \A b \in LineStarts(src) :
            (b < a /\ IsFieldLineAt(src, b)) =>
                \E c \in LineStarts(src) : b < c /\ c < a /\ IsBlank(src, c)}
RecordsHeld(format, src) ==
    CASE format = "bin" -> FramesHeld(src)
      [] format = "txt" -> Cardinality(RunHeads(src))
      [] format = "csv" -> Cardinality({a \in LineStarts(src) : a > 1 /\ ~IsBlank(src, a)})
PairsEqual(n) ==
    \A k \in 1..n :
        /\ results[1][k].tag = "Ok" /\ results[2][k].tag = "Ok"
        /\ results[1][k].rec = results[2][k].rec
ComparerLoop ==
    LET n == Len(results[1])
    IN  /\ pc \in {"compare", "identical", "not identical"} => Len(results[2]) = n
        /\ pc = "compare" => PairsEqual(n)
        /\ pc = "identical" =>
            (n >= 1 /\ PairsEqual(n - 1) /\ results[1][n] = OutNone /\ results[2][n] = OutNone)
        /\ pc = "not identical" =>
            /\ n >= 1 /\ PairsEqual(n - 1)
            /\ \/ results[1][n].tag = "Err"
               \/ results[2][n].tag = "Err"
               \/ results[1][n].tag = "None" /\ results[2][n].tag = "Ok"
               \/ results[1][n].tag = "Ok" /\ results[2][n].tag = "None"
               \/ /\ results[1][n].tag = "Ok" /\ results[2][n].tag = "Ok"
                  /\ results[1][n].rec # results[2][n].rec
C16_ComparerVerdict ==
    task = "comparer" =>
        /\ ComparerLoop
        /\ pc = "identical" => RecordsHeld(fmt, files[1]) = RecordsHeld(fmt2, files[2])

\* C17: Converter ordering.  The converter writes the header before any record:
\* once for CSV, nothing for TXT and BIN.  After it the output holds, in input
\* order, one serialized and written record per record the reader produced, so
\* the number of written records is the number of produced records; for an
\* input read without error to its end that is every call but the last.
ProducedRecords(res) ==
    LET oks == SelectSeq(res, LAMBDA o : o.tag = "Ok")
    IN  [k \in 1..Len(oks) |-> oks[k].rec]
HeaderExpected(format) ==
    IF format = "csv"
    THEN Join(<<TX_ID, TX_TYPE, FROM_USER, TO_USER, AMOUNT, TIMESTAMP, STATUS, DESCRIPTION>>,
              <<COMMA>>) \o <<NL>>
    ELSE <<>>
RecordsExpected(records) ==
    Concat([k \in 1..Len(records) |->
                Write(writer[1].val, <<>>, Serialize(serializer[1].val, records[k]).val)])
HeaderWritten ==
    \/ pc \in {"convert", "done", "aborted"}
    \/ pc = "failed" /\ writer # None /\ writer[1].ok
C17_ConverterOrdering ==
    task = "converter" =>
        /\ ~HeaderWritten => (files[1] = <<>> /\ written = 0 /\ results[2] = <<>>)
        /\ HeaderWritten =>
            /\ files[1] = HeaderExpected(fmt) \o RecordsExpected(ProducedRecords(results[2]))
            /\ written = Len(ProducedRecords(results[2]))
        /\ pc = "done" =>
            /\ Last(results[2]) = OutNone
            /\ written = Len(results[2]) - 1
C17_Witness ==
    /\ task = "converter" /\ pc = "done"
    /\ fmt = "csv" /\ fmt2 = "bin"
    /\ written = 2

\* C18: Last-write-wins.  When the sequence given to Record::try_from names all
\* eight fields, some of them more than once, the result is a Record, never an
\* error; each field of it is the value of the last occurrence of that field in
\* the sequence, so a field given once keeps its only value.
FieldOf(record, tag) ==
    CASE tag = "TxId" -> record.tx_id
      [] tag = "TxType" -> record.tx_type
      [] tag = "FromUser" -> record.from_user
      [] tag = "ToUser" -> record.to_user
      [] tag = "Amount" -> record.amount
      [] tag = "Timestamp" -> record.timestamp
      [] tag = "Status" -> record.status
      [] tag = "Description" -> record.description
IsLastOccurrence(fvs, i) == \A j \in (i + 1)..Len(fvs) : fvs[j].tag # fvs[i].tag
HasDuplicate(fvs) == \E i \in 1..Len(fvs) : ~IsLastOccurrence(fvs, i)
C18_LastWriteWins ==
    (call # NoCall /\ call[1].fn = "record_try_from" /\ MissingIn(call[1].fields) = {}) =>
        /\ call[1].ret.ok
        /\ \A i \in 1..Len(call[1].fields) :
            IsLastOccurrence(call[1].fields, i) =>
                FieldOf(call[1].ret.val, call[1].fields[i].tag) = call[1].fields[i].val
C18_Witness ==
    /\ call # NoCall /\ call[1].fn = "record_try_from"
    /\ Len(call[1].fields) = 9 /\ HasDuplicate(call[1].fields)
    /\ call[1].fields[1] = FieldValue("Amount", 6)
    /\ call[1].ret.ok /\ call[1].ret.val.amount = 1000 /\ call[1].ret.val.tx_id = 1

\* C19: TXT output shape.  What the TXT serializer and writer put out for a
\* record is eight lines "NAME: value", in the order TX_ID, AMOUNT, TIMESTAMP,
\* DESCRIPTION, TX_TYPE, FROM_USER_ID, TO_USER_ID, STATUS, and then one blank
\* line; so the lines of the output are these nine lines for each record
\* written, record after record, with one blank line between two records.
SplitLines(src) ==
    LET starts == LineStarts(src)
    IN  [k \in 1..Cardinality(starts) |->
            LineAt(src, CHOOSE a \in starts : Cardinality({b \in starts : b < a}) = k - 1)]
\* The records written so far, by either driver
RecordsWritten ==
    IF task = "convert" THEN SubSeq(recs, 1, written) ELSE ProducedRecords(results[2])
TxtLinesExpected(record) ==
    << TX_ID \o <<COLON, SP>> \o U64ToString(record.tx_id),
       AMOUNT \o <<COLON, SP>> \o U64ToString(record.amount),
       TIMESTAMP \o <<COLON, SP>> \o U64ToString(record.timestamp),
       DESCRIPTION \o <<COLON, SP>> \o record.description,
       TX_TYPE \o <<COLON, SP>> \o TxTypeDisplay(record.tx_type),
       FROM_USER \o <<COLON, SP>> \o U64ToString(record.from_user),
       TO_USER \o <<COLON, SP>> \o U64ToString(record.to_user),
       STATUS \o <<COLON, SP>> \o StatusDisplay(record.status),
       <<>> >>
TxtBytesExpected(records) ==
    Concat([k \in 1..Len(records) |-> Unlines(TxtLinesExpected(records[k]))])
TxtOutputLines(records) ==
    /\ files[1] = <<>> \/ Last(files[1]) = NL
    /\ SplitLines(files[1]) = Concat([k \in 1..Len(records) |-> TxtLinesExpected(records[k])])
C19_TxtOutputShape ==
    (task \in {"convert", "converter"} /\ fmt = "txt") =>
        /\ files[1] = TxtBytesExpected(RecordsWritten)
        /\ TxtOutputLines(RecordsWritten)

\* C20: CSV header and columns agree.  With the codecs the builders return for
\* "csv", the output is a header line of the eight field names joined by ','
\* and then one line per record, the display texts of its fields joined by ','
\* and a newline; column i of each record line is the field that column i of
\* the header names.
SplitColumns(line) ==
    LET cuts == {0} \cup {c \in 1..Len(line) : line[c] = COMMA}
    IN  [k \in 1..Cardinality(cuts) |->
            LET a == CHOOSE c \in cuts : Cardinality({b \in cuts : b < c}) = k - 1
                later == {b \in cuts : b > a}
            IN  SubSeq(line, a + 1, IF later = {} THEN Len(line) ELSE Min(later) - 1)]
DisplayText(record, name) ==
    CASE name = TX_ID -> U64ToString(record.tx_id)
      [] name = TX_TYPE -> TxTypeDisplay(record.tx_type)
      [] name = FROM_USER -> U64ToString(record.from_user)
      [] name = TO_USER -> U64ToString(record.to_user)
      [] name = AMOUNT -> U64ToString(record.amount)
      [] name = TIMESTAMP -> U64ToString(record.timestamp)
      [] name = STATUS -> StatusDisplay(record.status)
      [] name = DESCRIPTION -> record.description
      [] OTHER -> <<>>
NamesOfClaim == <<TX_ID, TX_TYPE, FROM_USER, TO_USER, AMOUNT, TIMESTAMP, STATUS, DESCRIPTION>>
CsvBytesExpected(records) ==
    Unlines(<<Join(NamesOfClaim, <<COMMA>>)>>
            \o [k \in 1..Len(records) |->
                    Join([i \in 1..8 |-> DisplayText(records[k], NamesOfClaim[i])], <<COMMA>>)])
CsvOutputColumns(records) ==
    LET lines == SplitLines(files[1])
        header == SplitColumns(lines[1])
    IN  /\ Last(files[1]) = NL
        /\ Len(lines) = 1 + Len(records)
        /\ Len(header) = 8
        /\ {header[i] : i \in 1..8} = FieldNames
        /\ \A k \in 1..Len(records) :
            /\ Len(SplitColumns(lines[k + 1])) = 8
            /\ \A i \in 1..8 :
                SplitColumns(lines[k + 1])[i] = DisplayText(records[k], header[i])
CsvHeaderWritten ==
    /\ task \in {"convert", "converter"} /\ fmt = "csv"
    /\ pc \notin {"start", "build", "header"}
    /\ writer # None
C20_CsvHeaderColumns ==
    CsvHeaderWritten =>
        /\ files[1] = CsvBytesExpected(RecordsWritten)
        /\ CsvOutputColumns(RecordsWritten)

\* C21: BIN length fields.  For a record whose description has L bytes the
\* serializer writes the body length 46 + L in the head and L in the
\* description_length field, so description_length = body length - 46, and the
\* frame has 8 + 46 + L bytes; for every L that fits in 32 bits.
RECURSIVE FrameLengthsAgree(_, _)
FrameLengthsAgree(bytes, records) ==
    IF records = <<>> THEN bytes = <<>>
    ELSE LET L == Len(records[1].description)
         IN  /\ Len(bytes) >= 8 + 46 + L
             /\ FromBeBytes(SubSeq(bytes, 5, 8)) = 46 + L
             /\ FromBeBytes(SubSeq(bytes, 8 + 42 + 1, 8 + 46)) = L
             /\ FrameLengthsAgree(From(bytes, 8 + 46 + L + 1), Tail(records))
\* A u32 given by four big-endian bytes, as halves
HalvesOf(b) == <<b[1] * 256 + b[2], b[3] * 256 + b[4]>>
\* h = 46 + len as numbers, for halves h and len
Is46More(h, len) ==
    IF h[2] >= 46 THEN h[1] = len[1] /\ h[2] - 46 = len[2]
    ELSE h[1] = len[1] + 1 /\ h[2] + 65536 - 46 = len[2]
C21_BinLengthFields ==
    /\ (task = "convert" /\ fmt = "bin" /\ pc \in {"records", "read"}) =>
            FrameLengthsAgree(files[1], SubSeq(recs, 1, written))
    /\ (call # NoCall /\ call[1].fn = "serialize_lengths") =>
            /\ ~call[1].ret.panic
            /\ HalvesOf(call[1].ret.desc) = call[1].len
            /\ Is46More(HalvesOf(call[1].ret.head), call[1].len)

\* C22: The BIN tag is not validated.  The serializer starts every frame with
\* "YPBN"; the reader does not look at these four bytes: on two files that
\* differ only in the first four bytes of frame heads, the calls of the BIN
\* reader return the same records, errors and end-of-stream, call by call.
RECURSIVE FramesTagged(_, _)
FramesTagged(bytes, records) ==
    IF records = <<>> THEN bytes = <<>>
    ELSE /\ Len(bytes) >= 54 + Len(records[1].description)
         /\ SubSeq(bytes, 1, 4) = <<89, 80, 66, 78>>
         /\ FramesTagged(From(bytes, 54 + Len(records[1].description) + 1), Tail(records))
RECURSIVE SameButTags(_, _)
SameButTags(a, b) ==
    IF Len(a) # Len(b) THEN FALSE
    ELSE IF Len(a) < 8 THEN From(a, 5) = From(b, 5)
    ELSE LET size == FromBeBytes(SubSeq(a, 5, 8))
         IN  IF Len(a) < 8 + size THEN From(a, 5) = From(b, 5)
             ELSE /\ SubSeq(a, 5, 8 + size) = SubSeq(b, 5, 8 + size)
                  /\ SameButTags(From(a, 8 + size + 1), From(b, 8 + size + 1))
C22_BinTagIgnored ==
    /\ (task = "convert" /\ fmt = "bin" /\ pc \in {"records", "read"}) =>
            FramesTagged(files[1], SubSeq(recs, 1, written))
    /\ (task = "read" /\ fmt = "bin" /\ Len(files) = 2 /\ SameButTags(files[1], files[2])) =>
            \A k \in 1..Len(results[1]) :
                k <= Len(results[2]) => results[1][k] = results[2][k]
C22_Witness ==
    /\ task = "read" /\ fmt = "bin" /\ files[1] = FrameA \o FrameB
    /\ SameButTags(files[1], files[2])
    /\ SubSeq(files[2], 1, 4) # SubSeq(files[1], 1, 4)
    /\ SubSeq(files[2], Len(FrameA) + 1, Len(FrameA) + 4) # SubSeq(FrameB, 1, 4)
    /\ results[1] = <<OutOk(RecA(<<97, 98>>)), OutOk(RecB("WITHDRAWAL", "PENDING")), OutNone>>
    /\ results[2] = results[1]

\* C23: TXT line counter.  After any reads on a TXT reader, current_line is the
\* number of lines of the source consumed so far, comment lines and blank lines
\* counted like field lines; a read at the end of the input leaves it as it is.
LinesConsumed(file, rest) ==
    Cardinality({a \in LineStarts(file) : a <= Len(file) - Len(rest)})
\* The count is right in rd and after each further read up to the end of input
RECURSIVE CountsLines(_, _)
CountsLines(rd, file) ==
    /\ rd.current_line = LinesConsumed(file, rd.source)
    /\ LET r == TxtRead(rd)
       IN  IF r.out = None
           THEN /\ r.rd.current_line = LinesConsumed(file, r.rd.source)
                /\ rd.source = <<>> => r.rd.current_line = rd.current_line
                /\ TxtRead(r.rd).rd.current_line = r.rd.current_line
           ELSE CountsLines(r.rd, file)
IsTxtReader(i) ==
    IF readers[i] = None THEN FALSE
    ELSE IF ~readers[i][1].ok THEN FALSE
    ELSE readers[i][1].val.kind = "txt"
C23_TxtLineCounter ==
    \A i \in 1..Len(readers) : IsTxtReader(i) => CountsLines(readers[i][1].val, files[i])

\* C24: End-of-stream is final.  For the CSV, the TXT and the BIN reader and
\* every input: after a produce_record call has returned None, every later call
\* on the same reader returns None, never a record or an error; and a call
\* returns None only when the source has no more data.
IsBuiltReader(i) ==
    IF readers[i] = None THEN FALSE ELSE readers[i][1].ok
NoneIsFinal(res) ==
    \A k \in 1..(Len(res) - 1) : res[k].tag = "None" => res[k + 1].tag = "None"
NoneAtEnd(i) ==
    (results[i] # <<>> /\ Last(results[i]).tag = "None") => readers[i][1].val.source = <<>>
C24_EndOfStreamFinal ==
    \A i \in 1..Len(readers) : IsBuiltReader(i) => (NoneIsFinal(results[i]) /\ NoneAtEnd(i))

\* C25: TXT round trip.  For records whose descriptions hold no newline, reading
\* what the TXT serializer and writer gave yields these records, equal and in
\* order, and then end-of-stream; also for a description that is empty, holds
\* ':' or starts with '#'.
NoNewline(records) ==
    \A k \in 1..Len(records) : \A j \in 1..Len(records[k].description) :
        records[k].description[j] # 10
C25_TxtRoundTrip ==
    (task = "convert" /\ fmt = "txt" /\ pc = "read" /\ NoNewline(recs)) =>
        \A k \in 1..Len(results[1]) :
            results[1][k] = IF k <= Len(recs) THEN OutOk(recs[k]) ELSE OutNone
C25_Witness ==
    /\ task = "convert" /\ fmt = "txt" /\ pc = "read"
    /\ Len(recs) = 2 /\ recs[1].description = <<35, 99>>
    /\ results[1] = <<OutOk(recs[1]), OutOk(recs[2]), OutNone>>

\* C26: The BIN reader goes on after a parse error.  When the source starts
\* with a complete frame of at least 46 body bytes whose tx_type or status byte
\* is not 0, 1 or 2, or whose description is not UTF-8, produce_record returns
\* an error, has taken exactly the 8 + body_size bytes of that frame, and is
\* not exhausted; the next call gives the result for the frame that follows: a
\* call on a source that starts with the frame of a record returns that record.
BadFrameAhead(src) ==
    IF Len(src) < 8 THEN FALSE
    ELSE LET size == FromBeBytes(SubSeq(src, 5, 8))
         IN  /\ size >= 46 /\ Len(src) >= 8 + size
             /\ \/ src[8 + 9] \notin {0, 1, 2}
                \/ src[8 + 42] \notin {0, 1, 2}
                \/ ~ValidUtf8(SubSeq(src, 8 + 47, 8 + size))
StartsWith(src, frame) == Len(src) >= Len(frame) /\ SubSeq(src, 1, Len(frame)) = frame
C26_BinResync ==
    [][\A i \in 1..Len(results) :
        (fmt = "bin" /\ JustCalled(i) /\ ~TheReader(i).is_exhausted) =>
            LET src == TheReader(i).source
                out == Last(results'[i])
                after == readers'[i][1].val
            IN  /\ BadFrameAhead(src) =>
                    /\ out.tag = "Err"
                    /\ after.source = From(src, 8 + FromBeBytes(SubSeq(src, 5, 8)) + 1)
                    /\ ~after.is_exhausted
                /\ \A r \in {RecB("WITHDRAWAL", "PENDING"), RecA(<<97, 98>>)} :
                    StartsWith(src, WireFrame(r)) => out = OutOk(r)]_vars
C26_Witness ==
    /\ task = "read" /\ fmt = "bin"
    /\ BadFrameAhead(files[1]) /\ files[1][8 + 42] = 9
    /\ Len(results[1]) = 3 /\ results[1][1].tag = "Err"
    /\ results[1][2] = OutOk(RecB("WITHDRAWAL", "PENDING"))
    /\ results[1][3] = OutNone

\* C27: TXT line parsing is total.  FieldValue::try_from returns a FieldValue or
\* an error value for every line: "no delimiter found" for a line without ':',
\* and a value or an error, never an abort, for a line that ends at its ':' or
\* has one character after it; so no produce_record call of a TXT reader aborts.
HasColon(line) == \E c \in 1..Len(line) : line[c] = COLON
C27_TxtLineTotal ==
    /\ (call # NoCall /\ call[1].fn = "field_value_try_from") =>
            /\ ~call[1].ret.panic
            /\ ~HasColon(call[1].line) =>
                    (~call[1].ret.res.ok /\ call[1].ret.res.err.text = "no delimiter found")
    /\ \A i \in 1..Len(readers) :
            IsTxtReader(i) => \A k \in 1..Len(results[i]) : results[i][k].tag # "Panic"

====
